---- MODULE Spec2Model ----
(***************************************************************************)
(* A model of the recipe persistence and identity layer of yenu:           *)
(* slugify_title, atomic_write, the YAML record store (create / write /    *)
(* read / delete / list / import), search and pagination, and the request  *)
(* handlers that relocate the asset directory when a title changes.        *)
(*                                                                         *)
(* Text is modelled as a sequence of characters; a character is a token    *)
(* naming one Unicode code point ("A", "a", "U+00E9", "U+4E00").           *)
(***************************************************************************)
EXTENDS Integers, Sequences, FiniteSets, TLC

VARIABLES
    title,      \* slugify_title: the argument
    slug,       \* slugify_title: the returned value, NotRun before the call
    files,      \* RECIPES_DIR: file stem |-> the YAML document of <stem>.yaml
    uploads,    \* UPLOADS_DIR: directory name |-> the set of file names in it
    last,       \* the last request served and its outcome
    disk,       \* atomic_write: the content at `path` (NoFile when absent)
    tmp,        \* atomic_write: the temporary file's content (NoFile when absent)
    data,       \* atomic_write: the payload
    pc,         \* atomic_write: the position in the function
    seen,       \* atomic_write: what a concurrent reader of `path` last read
    orig,       \* atomic_write: the content at `path` when the call began
    result,     \* search_recipes: the returned dict, NotRun before the call
    reqs        \* the requests in flight: each one's position and local variables

slugVars == <<title, slug>>
storeVars == <<files, uploads, last>>
awVars == <<disk, tmp, data, pc, seen, orig>>
searchVars == <<result>>
reqVars == <<reqs>>
vars == <<title, slug, files, uploads, last, disk, tmp, data, pc, seen, orig, result, reqs>>

----------------------------------------------------------------------------
(* Bounds of the model.                                                    *)

MaxTitleLen == 3
MaxBytes == 2
MaxSteps == 1
MaxImport == 2
MaxRecords == 12

----------------------------------------------------------------------------
(* Characters and text.                                                    *)

UpperSeq ==
    <<"A", "B", "C", "D", "E", "F", "G", "H", "I", "J", "K", "L", "M",
      "N", "O", "P", "Q", "R", "S", "T", "U", "V", "W", "X", "Y", "Z">>
LowerSeq ==
    <<"a", "b", "c", "d", "e", "f", "g", "h", "i", "j", "k", "l", "m",
      "n", "o", "p", "q", "r", "s", "t", "u", "v", "w", "x", "y", "z">>
AsciiUpper == {UpperSeq[i] : i \in 1..26}
AsciiLower == {LowerSeq[i] : i \in 1..26}
AsciiDigit == {"1"}
\* U+00C9 is LATIN CAPITAL LETTER E WITH ACUTE, U+00E9 its lowercase:
\* str.isalnum() is True for both.
OtherAlnum == {"U+00C9", "U+00E9"}
\* U+4E00 (yi) and U+997F (e) lie in the range matched by _cjk_re.
CjkChars == {"U+4E00", "U+997F"}
\* Neither CJK nor alphanumeric.
OtherChars == {" ", "!", "-", "."}

NotRun == <<"<not run>">>

\* str.lower() on one character
lower(ch) ==
    CASE ch \in AsciiUpper -> LowerSeq[CHOOSE i \in 1..26 : UpperSeq[i] = ch]
      [] ch = "U+00C9" -> "U+00E9"
      [] OTHER -> ch

\* str.isalnum() on one character
isalnum(ch) == ch \in AsciiUpper \cup AsciiLower \cup AsciiDigit \cup OtherAlnum \cup CjkChars

\* _is_cjk(ch): ch matches [一-鿿]
is_cjk(ch) == ch \in CjkChars

\* lazy_pinyin(ch) for one CJK character: the list of readings
lazy_pinyin(ch) ==
    CASE ch = "U+4E00" -> << <<"y", "i">> >>
      [] ch = "U+997F" -> << <<"e">> >>
      [] OTHER -> << <<ch>> >>

RECURSIVE LowerStr(_)
LowerStr(s) == IF s = <<>> THEN <<>> ELSE <<lower(Head(s))>> \o LowerStr(Tail(s))

RECURSIVE Join(_)
\* "".join(parts)
Join(parts) == IF parts = <<>> THEN <<>> ELSE Head(parts) \o Join(Tail(parts))

RECURSIVE CollapseHyphens(_)
\* re.sub(r"-+", "-", s)
CollapseHyphens(s) ==
    IF Len(s) < 2 THEN s
    ELSE IF s[1] = "-" /\ s[2] = "-" THEN CollapseHyphens(Tail(s))
    ELSE <<s[1]>> \o CollapseHyphens(Tail(s))

RECURSIVE LStrip(_, _)
LStrip(s, cs) == IF s # <<>> /\ Head(s) \in cs THEN LStrip(Tail(s), cs) ELSE s

RECURSIVE RStrip(_, _)
RStrip(s, cs) ==
    IF s # <<>> /\ s[Len(s)] \in cs THEN RStrip(SubSeq(s, 1, Len(s) - 1), cs) ELSE s

\* s.strip(cs)
StripChars(s, cs) == RStrip(LStrip(s, cs), cs)

\* s.strip(): whitespace
Strip(s) == StripChars(s, {" "})

\* the fragment slugify_title appends to `parts` for one character
SlugPart(ch) ==
    IF is_cjk(ch)
    THEN LET p == lazy_pinyin(ch) IN IF p # <<>> THEN LowerStr(p[1]) ELSE <<>>
    ELSE IF isalnum(ch) THEN <<lower(ch)>>
    ELSE <<"-">>

RecipeToken == <<"r", "e", "c", "i", "p", "e">>

\* the slug before the fallback is applied
SlugBody(t) ==
    StripChars(CollapseHyphens(Join([i \in 1..Len(t) |-> SlugPart(t[i])])), {"-"})

\* a plausible slip: the `or "recipe"` fallback is forgotten
slugify_title_NoFallback(t) == SlugBody(t)

slugify_title(t) == LET body == SlugBody(t) IN IF body # <<>> THEN body ELSE RecipeToken

----------------------------------------------------------------------------
(* slugify_title as a function of its argument.                            *)

TitleChars == {"A", "b", "1", "U+00C9", "U+00E9", "U+4E00", "U+997F", " ", "!", "-"}

SeqsUpTo(S, n) == UNION {[1..k -> S] : k \in 0..n}

SlugIdle == title = <<>> /\ slug = NotRun
StoreIdle == files = <<>> /\ uploads = <<>> /\ last = [op |-> "none"]
Absent == [exists |-> FALSE]
FileOf(b) == [exists |-> TRUE, bytes |-> b]

AwIdle ==
    /\ disk = Absent /\ tmp = Absent /\ data = <<>> /\ pc = "idle"
    /\ seen = Absent /\ orig = Absent
SearchIdle == result = [op |-> "none"]
ReqIdle == reqs = <<>>

InitSlug ==
    /\ ReqIdle
    /\ title \in SeqsUpTo(TitleChars, MaxTitleLen)
    /\ slug = NotRun
    /\ StoreIdle /\ AwIdle /\ SearchIdle

Slugify ==
    /\ slug = NotRun
    /\ slug' = slugify_title(title)
    /\ UNCHANGED <<title, storeVars, awVars, searchVars, reqVars>>

NextSlug == Slugify

SpecSlug == InitSlug /\ [][NextSlug]_vars

\* C4: for every title, slugify_title returns only lowercase ASCII letters,
\* digits and hyphens, with no leading, trailing or doubled hyphen (every
\* character that is neither CJK nor ASCII alphanumeric acts as a separator).
C4_SlugCharset ==
    slug # NotRun =>
        /\ \A i \in 1..Len(slug) : slug[i] \in AsciiLower \cup AsciiDigit \cup {"-"}
        /\ slug # <<>> => slug[1] # "-" /\ slug[Len(slug)] # "-"
        /\ \A i \in 1..(Len(slug) - 1) : ~(slug[i] = "-" /\ slug[i + 1] = "-")

IsSeparator(ch) == ~is_cjk(ch) /\ ~isalnum(ch)

----------------------------------------------------------------------------
(* Values of the record model.  An optional value is NoneV or a tagged     *)
(* value; a path is the sequence of the segments between its "/" (the      *)
(* empty string is the empty sequence).                                    *)

NoneV == [k |-> "none"]
Missing == [k |-> "missing"]            \* a key left out of a YAML mapping
StrV(s) == [k |-> "str", v |-> s]       \* a str
IntV(n) == [k |-> "int", v |-> n]       \* an int
FloatV(h) == [k |-> "float", v |-> h]   \* a float, counted in halves: h/2
ListV(l) == [k |-> "list", v |-> l]
PathV(p) == [k |-> "str", v |-> p]      \* a str holding a path

Dot == <<".">>

\* str(Path(p).as_posix()) on a relative path: empty and "." segments go,
\* and what is left of "./" is "."
as_posix(p) ==
    LET kept == SelectSeq(p, LAMBDA seg : seg # <<>> /\ seg # Dot)
    IN IF kept = <<>> THEN <<Dot>> ELSE kept

RECURSIVE DecimalValue(_)
DecimalValue(s) ==
    IF s = <<>> THEN 0 ELSE 10 * DecimalValue(SubSeq(s, 1, Len(s) - 1)) + 1

\* float(s) succeeds on the texts of the model that are made of digits
IsFloatText(s) ==
    LET t == Strip(s) IN t # <<>> /\ \A i \in 1..Len(t) : t[i] \in AsciiDigit

\* a plausible slip: the unit is trimmed and kept whatever the weight is
Ingredient_KeepsUnit(raw) ==
    LET w == raw.weight
        wOk == \/ w.k \in {"none", "int", "float"}
               \/ w.k = "str" /\ IsFloatText(w.v)
        weight == CASE w.k = "none" -> NoneV
                    [] w.k = "int" -> FloatV(2 * w.v)
                    [] w.k = "float" -> FloatV(w.v)
                    [] OTHER -> FloatV(2 * DecimalValue(Strip(w.v)))
        unit == IF raw.unit.k = "str" THEN Strip(raw.unit.v) ELSE <<>>
    IN IF Len(raw.name) >= 1 /\ wOk
       THEN [ok |-> TRUE, v |-> [name |-> raw.name, weight |-> weight, unit |-> unit]]
       ELSE [ok |-> FALSE]

\* Ingredient(name=..., weight=..., unit=...): pydantic's validation
\*   name: str, min_length=1;  weight: Optional[float];
\*   unit: "" when weight in (None, 0, 0.0), else (v or "").strip()
Ingredient(raw) ==
    LET w == raw.weight
        wOk == \/ w.k \in {"none", "int", "float"}
               \/ w.k = "str" /\ IsFloatText(w.v)
        weight == CASE w.k = "none" -> NoneV
                    [] w.k = "int" -> FloatV(2 * w.v)
                    [] w.k = "float" -> FloatV(w.v)
                    [] OTHER -> FloatV(2 * DecimalValue(Strip(w.v)))
        unit == IF weight = NoneV \/ weight = FloatV(0) THEN <<>>
                ELSE IF raw.unit.k = "str" THEN Strip(raw.unit.v) ELSE <<>>
    IN IF Len(raw.name) >= 1 /\ wOk
       THEN [ok |-> TRUE, v |-> [name |-> raw.name, weight |-> weight, unit |-> unit]]
       ELSE [ok |-> FALSE]

\* Recipe._normalize_tags
normalize_tags(v) ==
    IF v.k = "none" THEN NoneV
    ELSE LET tags == SelectSeq([i \in 1..Len(v.v) |-> Strip(v.v[i])], LAMBDA t : t # <<>>)
         IN IF tags = <<>> THEN NoneV ELSE ListV(tags)

\* Recipe._normalize_steps: a step is given as a str or as a dict / Step
normalize_steps(v) ==
    LET one(s) == IF s.k = "str"
                  THEN [text |-> Strip(s.v), image_path |-> NoneV]
                  ELSE [text |-> Strip(s.text), image_path |-> s.image_path]
    IN SelectSeq([i \in 1..Len(v) |-> one(v[i])], LAMBDA s : s.text # <<>>)

\* Recipe._normalize_cover: a legacy list gives its first element
normalize_cover(v) ==
    IF v.k = "list" THEN (IF v.v = <<>> THEN NoneV ELSE PathV(v.v[1])) ELSE v

\* Recipe(**raw): the validated record, or the fields that failed
Recipe(raw) ==
    LET ings == [i \in 1..Len(raw.ingredients) |-> Ingredient(raw.ingredients[i])]
        steps == normalize_steps(raw.steps)
        errs == (IF Len(raw.title) >= 1 THEN {} ELSE {"title"})
                \cup (IF Len(ings) >= 1 /\ \A i \in 1..Len(ings) : ings[i].ok
                      THEN {} ELSE {"ingredients"})
                \cup (IF Len(steps) >= 1 THEN {} ELSE {"steps"})
    IN IF errs = {}
       THEN [ok |-> TRUE,
             r |-> [title |-> raw.title,
                    tags |-> normalize_tags(raw.tags),
                    ingredients |-> [i \in 1..Len(ings) |-> ings[i].v],
                    steps |-> steps,
                    dish_image_path |-> normalize_cover(raw.dish_image_path)]]
       ELSE [ok |-> FALSE, errs |-> errs]

\* a plausible slip: `if not item.get("weight")` drops a zero weight too
CleanIngredient_DropsZero(ing) ==
    [name |-> ing.name,
     weight |-> IF ing.weight = NoneV \/ ing.weight = FloatV(0) THEN Missing
                ELSE IF ing.weight.v % 2 = 0 THEN IntV(ing.weight.v \div 2)
                ELSE ing.weight,
     unit |-> IF ing.unit = <<>> THEN Missing ELSE StrV(ing.unit)]

\* the ingredient items Recipe.dict_for_yaml emits: weight dropped when
\* None, an integral weight written as an int, unit dropped when empty
CleanIngredient(ing) ==
    [name |-> ing.name,
     weight |-> IF ing.weight = NoneV THEN Missing
                ELSE IF ing.weight.v % 2 = 0 THEN IntV(ing.weight.v \div 2)
                ELSE ing.weight,
     unit |-> IF ing.unit = <<>> THEN Missing ELSE StrV(ing.unit)]

\* a truthy path is stored in POSIX form, a falsy one is left out (step) or
\* left as it is (cover)
StepItem(s) ==
    [k |-> "dict", text |-> s.text,
     image_path |-> IF s.image_path.k = "str" /\ s.image_path.v # <<>>
                    THEN PathV(as_posix(s.image_path.v)) ELSE Missing]

\* Recipe.dict_for_yaml
dict_for_yaml(r) ==
    [title |-> r.title,
     tags |-> r.tags,
     ingredients |-> [i \in 1..Len(r.ingredients) |-> CleanIngredient(r.ingredients[i])],
     steps |-> [i \in 1..Len(r.steps) |-> StepItem(r.steps[i])],
     dish_image_path |-> IF r.dish_image_path.k = "str" /\ r.dish_image_path.v # <<>>
                         THEN PathV(as_posix(r.dish_image_path.v))
                         ELSE r.dish_image_path]

\* the keyword arguments Recipe(**data) receives from a YAML mapping: a key
\* left out takes the field's default
FromYaml(doc) ==
    [title |-> doc.title,
     tags |-> doc.tags,
     ingredients |-> [i \in 1..Len(doc.ingredients) |->
        [name |-> doc.ingredients[i].name,
         weight |-> IF doc.ingredients[i].weight = Missing THEN NoneV
                    ELSE doc.ingredients[i].weight,
         unit |-> IF doc.ingredients[i].unit = Missing THEN StrV(<<>>)
                  ELSE doc.ingredients[i].unit]],
     steps |-> [i \in 1..Len(doc.steps) |->
        IF doc.steps[i].k = "str" THEN doc.steps[i]
        ELSE [k |-> "dict", text |-> doc.steps[i].text,
              image_path |-> IF doc.steps[i].image_path = Missing THEN NoneV
                             ELSE doc.steps[i].image_path]],
     dish_image_path |-> IF doc.dish_image_path = Missing THEN NoneV
                         ELSE doc.dish_image_path]

\* a file whose text yaml.safe_load cannot parse
NotYaml == [k |-> "not yaml"]

\* load_recipe_by_path: yaml.safe_load, then Recipe(**data); ok = FALSE
\* stands for the exception either of them raises
load_recipe_by_path(doc) ==
    IF doc = NotYaml THEN [ok |-> FALSE, errs |-> {"yaml"}]
    ELSE Recipe(FromYaml(doc))

----------------------------------------------------------------------------
(* The record store: functions of the recipes directory.                   *)

\* F applied to the value of v, with v computed once
With(v, F(_)) == CHOOSE out \in {F(b) : b \in {v}} : TRUE

Put(f, key, val) == [k \in DOMAIN f \cup {key} |-> IF k = key THEN val ELSE f[k]]
Drop(f, key) == [k \in DOMAIN f \ {key} |-> f[k]]

slug_for_title(t) == slugify_title(t)

\* a plausible slip: a file that does not load is skipped, as the listing
\* skips it
read_recipe_SkipsInvalid(fs, s) ==
    IF s \notin DOMAIN fs THEN [found |-> FALSE]
    ELSE IF ~load_recipe_by_path(fs[s]).ok THEN [found |-> FALSE]
    ELSE [found |-> TRUE, loaded |-> load_recipe_by_path(fs[s])]

\* read_recipe(slug): None when the file does not exist; otherwise what
\* load_recipe_by_path returns or raises
read_recipe(fs, s) ==
    IF s \notin DOMAIN fs THEN [found |-> FALSE]
    ELSE [found |-> TRUE, loaded |-> load_recipe_by_path(fs[s])]

\* a plausible slip: an occupied slug is kept and the record is written
\* beside it, at the slug followed by "-2"
create_recipe_Unique(fs, r) ==
    LET s == slug_for_title(r.title)
        free == IF s \in DOMAIN fs THEN s \o <<"-", "2">> ELSE s
    IN [slug |-> free, files |-> Put(fs, free, dict_for_yaml(r))]

\* create_recipe(recipe): the slug and the directory afterwards
create_recipe(fs, r) ==
    LET s == slug_for_title(r.title)
    IN [slug |-> s, files |-> Put(fs, s, dict_for_yaml(r))]

\* a plausible slip: the file is written at the slug the caller passed
write_recipe_AtOldSlug(fs, s, r) ==
    [slug |-> s, files |-> Put(fs, s, dict_for_yaml(r))]

\* write_recipe(slug, recipe): the file is written at the slug of the title
write_recipe(fs, s, r) ==
    LET desired_slug == slug_for_title(r.title)
        final == IF desired_slug # s THEN desired_slug ELSE s
    IN [slug |-> final, files |-> Put(fs, final, dict_for_yaml(r))]

\* a plausible slip: unlink(missing_ok=True) and True in every case
delete_recipe_AlwaysTrue(fs, s) == [ok |-> TRUE, files |-> Drop(fs, s)]

\* delete_recipe(slug)
delete_recipe(fs, s) ==
    IF s \notin DOMAIN fs THEN [ok |-> FALSE, files |-> fs]
    ELSE [ok |-> TRUE, files |-> Drop(fs, s)]

\* get_all_recipes as the set of listed slugs: the files that load
ListedSlugs(fs) == {s \in DOMAIN fs : load_recipe_by_path(fs[s]).ok}

----------------------------------------------------------------------------
(* create_recipe followed by read_recipe, on an empty directory, for the   *)
(* records that Recipe(...) accepts.                                       *)

TextSalt == <<"s", "a", "l", "t">>
TextPinch == <<"p", "i", "n", "c", "h">>
StrAssets == <<"a", "s", "s", "e", "t", "s">>
StrUploads == <<"u", "p", "l", "o", "a", "d", "s">>
NameCover == <<"c", ".", "j", "p", "g">>
NameStep == <<"s", ".", "j", "p", "g">>

\* "assets/uploads/<slug>/<name>"
AssetPath(s, name) == <<StrAssets, StrUploads, s, name>>

RtTitles == {<<>>, <<"A">>, <<" ", "B", "!">>}
RtTags == {NoneV, ListV(<<>>), ListV(<< <<"x">>, <<" ", "T">>, <<" ">> >>)}
RtWeights ==
    {NoneV, IntV(0), FloatV(0), IntV(2), FloatV(1), FloatV(4), StrV(<<"1">>), StrV(TextPinch)}
RtUnits == {NoneV, StrV(<<"g">>), StrV(<<" ", "g", " ">>)}
RtIngredients ==
    {[name |-> TextSalt, weight |-> w, unit |-> u] : w \in RtWeights, u \in RtUnits}
    \cup {[name |-> <<>>, weight |-> NoneV, unit |-> NoneV]}
RtPaths ==
    {NoneV, PathV(<<>>), PathV(AssetPath(<<"a">>, NameCover)),
     PathV(<<StrAssets, <<>>, NameStep>>), PathV(<<Dot, NameCover, <<>> >>)}
RtStepItems ==
    {StrV(<<" ">>), StrV(<<" ", "a">>)}
    \cup {[k |-> "dict", text |-> <<"b", " ">>, image_path |-> q] : q \in RtPaths}
RtCovers == RtPaths \cup {ListV(<< AssetPath(<<"a">>, NameCover) >>)}

RtRaw ==
    [title : RtTitles,
     tags : RtTags,
     ingredients : SeqsUpTo(RtIngredients, 1),
     steps : SeqsUpTo(RtStepItems, MaxSteps),
     dish_image_path : RtCovers]

InitRt ==
    /\ ReqIdle
    /\ files = <<>>
    /\ uploads = <<>>
    /\ last = [op |-> "none"]
    /\ SlugIdle /\ AwIdle /\ SearchIdle

\* r = Recipe(**raw); slug = create_recipe(r)
RtCreate ==
    /\ last.op = "none"
    /\ \E raw \in RtRaw :
        LET made == Recipe(raw)
        IN IF made.ok
           THEN /\ files' = create_recipe(files, made.r).files
                /\ last' = [op |-> "create", ok |-> TRUE, raw |-> raw, r |-> made.r,
                            slug |-> create_recipe(files, made.r).slug]
           ELSE /\ files' = files
                /\ last' = [op |-> "create", ok |-> FALSE, raw |-> raw]
    /\ UNCHANGED <<uploads, slugVars, awVars, searchVars, reqVars>>

\* read_recipe(slug) of the record just created
RtRead ==
    /\ last.op = "create"
    /\ last.ok
    /\ last' = [op |-> "read", ok |-> TRUE, raw |-> last.raw, r |-> last.r,
                slug |-> last.slug, out |-> read_recipe(files, last.slug)]
    /\ UNCHANGED <<files, uploads, slugVars, awVars, searchVars, reqVars>>

NextRt == RtCreate \/ RtRead

SpecRt == InitRt /\ [][NextRt]_vars

\* the record with its image paths as dict_for_yaml stores them: in POSIX
\* form, and an empty step image path as no path
StoredPaths(r) ==
    [r EXCEPT
        !.dish_image_path =
            IF @.k = "str" /\ @.v # <<>> THEN PathV(as_posix(@.v)) ELSE @,
        !.steps = [i \in 1..Len(r.steps) |->
            [r.steps[i] EXCEPT !.image_path =
                IF @.k = "str" /\ @.v # <<>> THEN PathV(as_posix(@.v)) ELSE NoneV]]]

\* C6, read literally: read(create(r)) equals r in every field, the image
\* paths included.
C6_RoundTripAsStated ==
    last.op = "read" =>
        /\ last.out.found
        /\ last.out.loaded.ok
        /\ last.out.loaded.r = last.r

\* C6: read(create(r)) equals r in title, tags, ingredients
\* (name, weight, unit) and step texts; every image path comes back in its
\* POSIX-normalised form, and an empty step image path comes back absent.
C6_RoundTrip ==
    last.op = "read" =>
        /\ last.out.found
        /\ last.out.loaded.ok
        /\ last.out.loaded.r = StoredPaths(last.r)
        /\ last.out.loaded.r.title = last.r.title
        /\ last.out.loaded.r.tags = last.r.tags
        /\ last.out.loaded.r.ingredients = last.r.ingredients
        /\ \A i \in 1..Len(last.r.steps) :
            last.out.loaded.r.steps[i].text = last.r.steps[i].text

C6_Witness ==
    /\ last.op = "read"
    /\ last.r.tags.k = "list"
    /\ last.r.ingredients[1].weight = FloatV(0)
    /\ last.r.dish_image_path = PathV(<<Dot, NameCover, <<>> >>)
    /\ last.out.loaded.r.dish_image_path = PathV(<<NameCover>>)
    /\ last.r.steps[1].image_path = PathV(<<>>)

\* the weight of a raw ingredient is None or a number equal to zero
NoWeight(w) ==
    \/ w.k = "none"
    \/ w.k \in {"int", "float"} /\ w.v = 0

\* the unit a stored ingredient item carries, the empty text when it has none
StoredUnit(item) == IF item.unit = Missing THEN <<>> ELSE item.unit.v

\* C18: in every record file an ingredient without a weight, or with the
\* weight zero, has no unit; and the record just created stores, for each
\* ingredient, no unit when the supplied weight is None or zero, and the
\* supplied unit trimmed when the supplied weight is not zero.
C18_WeightUnitRule ==
    /\ \A s \in DOMAIN files : \A i \in 1..Len(files[s].ingredients) :
          files[s].ingredients[i].weight \in {Missing, IntV(0), FloatV(0)}
              => files[s].ingredients[i].unit = Missing
    /\ last.op = "create" /\ last.ok =>
          \A i \in 1..Len(last.raw.ingredients) :
              LET given == last.raw.ingredients[i]
                  kept == files[last.slug].ingredients[i]
              IN /\ NoWeight(given.weight) => kept.unit = Missing
                 /\ ~NoWeight(given.weight) =>
                       StoredUnit(kept) =
                           IF given.unit.k = "str" THEN Strip(given.unit.v) ELSE <<>>

C18_Witness ==
    /\ last.op = "create"
    /\ last.ok
    /\ last.raw.ingredients[1].weight = IntV(0)
    /\ last.raw.ingredients[1].unit = StrV(<<" ", "g", " ">>)
    /\ files[last.slug].ingredients[1].weight = IntV(0)
    /\ files[last.slug].ingredients[1].unit = Missing

\* the raw record with the weight of its first ingredient replaced
WithWeight(raw, w) ==
    [raw EXCEPT !.ingredients = [@ EXCEPT ![1] = [@ EXCEPT !.weight = w]]]

\* C7: a recipe whose ingredient weight is a non-numeric text is accepted,
\* and reading it back returns that text as the weight.
C7_FreeTextWeight ==
    (/\ last.op \in {"create", "read"}
     /\ Len(last.raw.ingredients) = 1
     /\ last.raw.ingredients[1].weight = StrV(TextPinch)
     /\ Recipe(WithWeight(last.raw, NoneV)).ok)
    => /\ last.ok
       /\ last.op = "read" =>
            last.out.loaded.r.ingredients[1].weight = StrV(TextPinch)

----------------------------------------------------------------------------
(* The uploads directory and the image service.                            *)

\* a plausible slip: an existing destination is merged with, not replaced
move_tree_Merge(ups, src, dst) ==
    IF src \notin DOMAIN ups THEN ups
    ELSE Put(Drop(ups, src), dst,
             (IF dst \in DOMAIN ups THEN ups[dst] ELSE {}) \cup ups[src])

\* move_tree(UPLOADS_DIR / src, UPLOADS_DIR / dst): when src is dst the
\* directory is removed by rmtree and shutil.move then raises
move_tree(ups, src, dst) ==
    IF src \notin DOMAIN ups THEN ups
    ELSE IF src = dst THEN Drop(ups, src)
    ELSE Put(Drop(Drop(ups, dst), src), dst, ups[src])

IsPrefix(pre, seg) == Len(seg) >= Len(pre) /\ SubSeq(seg, 1, Len(pre)) = pre

DotDot == <<".", ".">>

\* the directory UPLOADS_DIR / k is d or lies inside it; a directory is
\* named by its path relative to UPLOADS_DIR, so ".." is the parent of
\* UPLOADS_DIR and holds every directory not above it
Within(k, d) ==
    \/ k = d
    \/ d # DotDot /\ IsPrefix(d \o <<"/">>, k)
    \/ d = DotDot /\ ~IsPrefix(DotDot \o <<"/">> \o DotDot, k)

\* rmtree_silent(UPLOADS_DIR / d): the directory goes with all it holds
rmtree_silent(ups, d) == [k \in {x \in DOMAIN ups : ~Within(x, d)} |-> ups[k]]

NoUpload == [k |-> "none"]
Upload(stem, kind) == [k |-> "file", stem |-> stem, kind |-> kind]

\* validate_image accepts JPEG and PNG data
ImageOk(up) == up.kind \in {"jpeg", "png"}

ExtOf(kind) == IF kind = "jpeg" THEN <<".", "j", "p", "g">> ELSE <<".", "p", "n", "g">>

\* save_image(slug, file_name, data) on valid image data: the file lands in
\* UPLOADS_DIR/<slug>/ and its web-relative path is returned
save_image(ups, s, up) ==
    LET out_name == slugify_title(up.stem) \o ExtOf(up.kind)
    IN [uploads |-> Put(ups, s, (IF s \in DOMAIN ups THEN ups[s] ELSE {}) \cup {out_name}),
        path |-> AssetPath(s, out_name)]

HasSuffix(seg, suf) ==
    Len(seg) >= Len(suf) /\ SubSeq(seg, Len(seg) - Len(suf) + 1, Len(seg)) = suf

\* path.replace(f"assets/uploads/{old}/", f"assets/uploads/{new}/")
ReplaceNamespace(p, old, new) ==
    [i \in 1..Len(p) |->
        IF /\ i >= 3 /\ i < Len(p)
           /\ p[i] = old /\ p[i - 1] = StrUploads /\ HasSuffix(p[i - 2], StrAssets)
        THEN new ELSE p[i]]

Truthy(v) == v.k = "str" /\ v.v # <<>>

----------------------------------------------------------------------------
(* move_tree on its own, from every small uploads directory.               *)

MoveSlugs == {<<"a">>, <<"b">>, <<"c">>}
MoveNames == {<<"x">>, <<"y">>}

\* the uploads directories: some slugs have a directory, holding files
MoveDirs ==
    UNION {[D -> SUBSET MoveNames] : D \in SUBSET MoveSlugs}

InitMove ==
    /\ ReqIdle
    /\ uploads \in MoveDirs
    /\ files = <<>>
    /\ last = [op |-> "none"]
    /\ SlugIdle /\ AwIdle /\ SearchIdle

\* move_tree(UPLOADS_DIR / src, UPLOADS_DIR / dst)
Relocate ==
    \E src \in MoveSlugs, dst \in MoveSlugs :
        /\ uploads' = move_tree(uploads, src, dst)
        /\ last' = [op |-> "move", src |-> src, dst |-> dst, before |-> uploads]
        /\ UNCHANGED <<files, slugVars, awVars, searchVars, reqVars>>

NextMove == Relocate

SpecMove == InitMove /\ [][NextMove]_vars

\* C11: relocating old to another namespace new is a no-op when old has no
\* asset directory; otherwise no directory is left at old, the directory at
\* new holds exactly the files that were under old (whatever new held is
\* discarded), and the other directories are as they were.
C11_Relocation ==
    (last.op = "move" /\ last.src # last.dst) =>
        IF last.src \notin DOMAIN last.before
        THEN uploads = last.before
        ELSE /\ last.src \notin DOMAIN uploads
             /\ last.dst \in DOMAIN uploads
             /\ uploads[last.dst] = last.before[last.src]
             /\ \A d \in MoveSlugs \ {last.src, last.dst} :
                    /\ d \in DOMAIN uploads <=> d \in DOMAIN last.before
                    /\ d \in DOMAIN uploads => uploads[d] = last.before[d]

\* a relocation onto a namespace that held other files
C11_Witness ==
    /\ last.op = "move"
    /\ last.src = <<"a">>
    /\ last.dst = <<"b">>
    /\ <<"a">> \in DOMAIN last.before
    /\ <<"b">> \in DOMAIN last.before
    /\ last.before[<<"a">>] = {<<"x">>}
    /\ last.before[<<"b">>] = {<<"y">>}
    /\ uploads[<<"b">>] = {<<"x">>}

----------------------------------------------------------------------------
(* The JSON API handlers (routers/api.py).                                 *)

\* the keyword arguments the API handlers pass to Recipe(...)
ApiRaw(form, cover) ==
    [title |-> Strip(form.title),
     tags |-> normalize_tags(ListV(form.tags)),
     ingredients |-> form.ingredients,
     steps |-> [i \in 1..Len(form.steps) |-> StrV(form.steps[i])],
     dish_image_path |-> cover]

\* api_create_recipe: the directories afterwards and the response
api_create_recipe(fs, ups, form) ==
    With(Recipe(ApiRaw(form, NoneV)), LAMBDA made :
    IF ~made.ok THEN [files |-> fs, uploads |-> ups, status |-> "error"]
    ELSE
    With(create_recipe(fs, made.r), LAMBDA created :
    IF form.dish_image = NoUpload
    THEN With(write_recipe(created.files, created.slug, made.r), LAMBDA wrote :
         [files |-> wrote.files, uploads |-> ups,
          status |-> "ok", slug |-> wrote.slug, written |-> made.r])
    ELSE IF ~ImageOk(form.dish_image)
    THEN [files |-> created.files, uploads |-> ups, status |-> "error"]
    ELSE
    With(save_image(ups, created.slug, form.dish_image), LAMBDA saved :
    With([made.r EXCEPT !.dish_image_path = PathV(saved.path)], LAMBDA recipe :
    With(write_recipe(created.files, created.slug, recipe), LAMBDA wrote :
    [files |-> wrote.files, uploads |-> saved.uploads,
     status |-> "ok", slug |-> wrote.slug, written |-> recipe])))))

\* a plausible slip: the cover path is rewritten but the directory is left
\* for a later step to move
MoveToSlug_PathOnly(ups, r, s, new_slug) ==
    IF new_slug = s THEN [uploads |-> ups, r |-> r]
    ELSE [uploads |-> ups,
          r |-> IF Truthy(r.dish_image_path)
                THEN [r EXCEPT !.dish_image_path =
                        PathV(ReplaceNamespace(@.v, s, new_slug))]
                ELSE r]

\* the record and the upload directories after the slug changed from s to
\* new_slug: the directory is moved and the cover path rewritten
MoveToSlug(ups, r, s, new_slug) ==
    IF new_slug = s THEN [uploads |-> ups, r |-> r]
    ELSE [uploads |-> move_tree(ups, s, new_slug),
          r |-> IF Truthy(r.dish_image_path)
                THEN [r EXCEPT !.dish_image_path =
                        PathV(ReplaceNamespace(@.v, s, new_slug))]
                ELSE r]

\* api_update_recipe
api_update_recipe(fs, ups, s, form) ==
    With(read_recipe(fs, s), LAMBDA existing :
    IF ~existing.found THEN [files |-> fs, uploads |-> ups, status |-> "not_found"]
    ELSE IF ~existing.loaded.ok THEN [files |-> fs, uploads |-> ups, status |-> "error"]
    ELSE
    With(Recipe(ApiRaw(form, existing.loaded.r.dish_image_path)), LAMBDA made :
    IF ~made.ok THEN [files |-> fs, uploads |-> ups, status |-> "error"]
    ELSE
    With(slug_for_title(made.r.title), LAMBDA new_slug :
    With(MoveToSlug(ups, made.r, s, new_slug), LAMBDA moved :
    IF form.dish_image = NoUpload
    THEN With(write_recipe(fs, s, moved.r), LAMBDA wrote :
         [files |-> wrote.files, uploads |-> moved.uploads,
          status |-> "ok", slug |-> wrote.slug, written |-> moved.r])
    ELSE IF ~ImageOk(form.dish_image)
    THEN [files |-> fs, uploads |-> moved.uploads, status |-> "error"]
    ELSE
    With(save_image(moved.uploads, new_slug, form.dish_image), LAMBDA saved :
    With([moved.r EXCEPT !.dish_image_path = PathV(saved.path)], LAMBDA updated :
    With(write_recipe(fs, s, updated), LAMBDA wrote :
    [files |-> wrote.files, uploads |-> saved.uploads,
     status |-> "ok", slug |-> wrote.slug, written |-> updated])))))))

\* api_delete_recipe
api_delete_recipe(fs, ups, s) ==
    LET deleted == delete_recipe(fs, s)
    IN [files |-> deleted.files,
        uploads |-> rmtree_silent(ups, s),
        status |-> IF deleted.ok THEN "ok" ELSE "not_found"]

----------------------------------------------------------------------------
(* The HTML form handlers (routers/pages.py).                              *)

\* the default step text the form handlers fall back to
StepPlaceholder == <<"U+6B65", "U+9AA4">>

\* _parse_ingredients: the arguments of each Ingredient(...) it builds
ParseRow(row) ==
    LET w_str == Strip(row.weight)
    IN IF w_str = <<>>
       THEN [name |-> Strip(row.name), weight |-> NoneV, unit |-> StrV(<<>>)]
       ELSE [name |-> Strip(row.name),
             weight |-> IF IsFloatText(w_str) THEN FloatV(2 * DecimalValue(w_str))
                        ELSE StrV(w_str),
             unit |-> StrV(Strip(row.unit))]

_parse_ingredients(rows) ==
    LET kept == SelectSeq(rows, LAMBDA row : Strip(row.name) # <<>>)
        args == [i \in 1..Len(kept) |-> ParseRow(kept[i])]
    IN [ok |-> \A i \in 1..Len(args) : Ingredient(args[i]).ok, args |-> args]

StripAll(texts) == SelectSeq([i \in 1..Len(texts) |-> Strip(texts[i])], LAMBDA t : t # <<>>)

\* steps_text before the default is applied: step_text, else the lines of
\* the legacy step_list textarea
FormSteps(form) ==
    IF StripAll(form.step_text) # <<>> THEN StripAll(form.step_text)
    ELSE StripAll(form.step_list)

RECURSIVE SaveStepImages(_, _, _, _, _)
\* the loop over formdata.getlist("step_image"), from index idx on: stops at
\* the first image save_image rejects
SaveStepImages(ups, s, steps, imgs, idx) ==
    IF idx > Len(imgs) THEN [ok |-> TRUE, uploads |-> ups, steps |-> steps]
    ELSE IF imgs[idx] = NoUpload \/ idx > Len(steps)
    THEN SaveStepImages(ups, s, steps, imgs, idx + 1)
    ELSE IF ~ImageOk(imgs[idx]) THEN [ok |-> FALSE, uploads |-> ups, steps |-> steps]
    ELSE With(save_image(ups, s, imgs[idx]), LAMBDA saved :
         With([steps EXCEPT ![idx] = [@ EXCEPT !.image_path = PathV(saved.path)]],
              LAMBDA steps1 :
         SaveStepImages(saved.uploads, s, steps1, imgs, idx + 1)))

\* the cover and step images of a form, saved in that order
SaveFormImages(ups, s, r, form) ==
    IF form.dish_image # NoUpload /\ ~ImageOk(form.dish_image)
    THEN [ok |-> FALSE, uploads |-> ups]
    ELSE
    With(IF form.dish_image = NoUpload THEN [uploads |-> ups, r |-> r]
         ELSE With(save_image(ups, s, form.dish_image), LAMBDA cover :
              [uploads |-> cover.uploads,
               r |-> [r EXCEPT !.dish_image_path = PathV(cover.path)]]),
         LAMBDA covered :
    With(SaveStepImages(covered.uploads, s, covered.r.steps, form.step_image, 1),
         LAMBDA stepsDone :
    [ok |-> stepsDone.ok, uploads |-> stepsDone.uploads,
     r |-> [covered.r EXCEPT !.steps = stepsDone.steps]]))

\* the YAML mapping create_recipe_action writes when Recipe(...) rejects
\* the form
FallbackDoc(t, tags_list, args, steps_text) ==
    [title |-> t,
     tags |-> tags_list,
     ingredients |-> [i \in 1..Len(args) |->
        LET ing == Ingredient(args[i]).v
        IN [name |-> ing.name, weight |-> ing.weight, unit |-> StrV(ing.unit)]],
     steps |-> [i \in 1..Len(steps_text) |-> StrV(steps_text[i])],
     dish_image_path |-> Missing]

\* create_recipe_action
create_recipe_action(fs, ups, form) ==
    With(_parse_ingredients(form.ingredients), LAMBDA ingredients :
    IF ~ingredients.ok THEN [files |-> fs, uploads |-> ups, status |-> "error"]
    ELSE
    With(FormSteps(form), LAMBDA given :
    With(IF given # <<>> THEN given ELSE <<StepPlaceholder>>, LAMBDA steps_text :
    With(normalize_tags(ListV(form.tags)), LAMBDA tags_list :
    With(Recipe([title |-> Strip(form.title),
                 tags |-> tags_list,
                 ingredients |-> ingredients.args,
                 steps |-> [i \in 1..Len(steps_text) |->
                    [k |-> "dict", text |-> steps_text[i], image_path |-> NoneV]],
                 dish_image_path |-> NoneV]), LAMBDA made :
    IF ~made.ok
    THEN With(slug_for_title(Strip(form.title)), LAMBDA slug_fb :
         [files |-> Put(fs, slug_fb,
                        FallbackDoc(Strip(form.title), tags_list, ingredients.args,
                                    steps_text)),
          uploads |-> ups, status |-> "fallback", slug |-> slug_fb])
    ELSE
    With(create_recipe(fs, made.r), LAMBDA created :
    With(SaveFormImages(ups, created.slug, made.r, form), LAMBDA images :
    IF ~images.ok
    THEN [files |-> created.files, uploads |-> images.uploads, status |-> "invalid"]
    ELSE
    With(write_recipe(created.files, created.slug, images.r), LAMBDA wrote :
    [files |-> wrote.files, uploads |-> images.uploads,
     status |-> "ok", slug |-> wrote.slug, written |-> images.r]))))))))

\* _unlink_if_exists(path_str, current_slug)
_unlink_if_exists(ups, v, s) ==
    IF ~Truthy(v) \/ s \notin DOMAIN ups THEN ups
    ELSE LET posix == as_posix(v.v)
             name == posix[Len(posix)]
         IN IF name \in ups[s] THEN Put(ups, s, ups[s] \ {name}) ELSE ups

RECURSIVE UnlinkAll(_, _, _)
\* for path_str in delset: _unlink_if_exists(path_str, new_slug)
UnlinkAll(ups, delset, s) ==
    IF delset = {} THEN ups
    ELSE LET v == CHOOSE x \in delset : TRUE
         IN UnlinkAll(_unlink_if_exists(ups, v, s), delset \ {v}, s)

\* steps_text of recipe_edit_action: the form's steps, else the existing
\* ones, else the default
EditSteps(old, form) ==
    With(FormSteps(form), LAMBDA given :
    IF given # <<>> THEN given
    ELSE IF old.steps # <<>> THEN [i \in 1..Len(old.steps) |-> old.steps[i].text]
    ELSE <<StepPlaceholder>>)

\* preserved_steps: a step keeps the image of the existing step at its
\* index unless the form asks for its deletion
PreservedSteps(old, steps_text, delset) ==
    [idx \in 1..Len(steps_text) |->
        [k |-> "dict", text |-> steps_text[idx],
         image_path |->
            IF /\ idx <= Len(old.steps)
               /\ Truthy(old.steps[idx].image_path)
               /\ old.steps[idx].image_path \notin delset
            THEN old.steps[idx].image_path ELSE NoneV]]

\* the image deletions of recipe_edit_action, in the code's order:
\* delete_dish, delete_step_image, then the cover a new upload replaces
EditDeletions(ups, r, new_slug, form) ==
    With(IF form.delete_dish /\ Truthy(r.dish_image_path)
         THEN [uploads |-> _unlink_if_exists(ups, r.dish_image_path, new_slug),
               r |-> [r EXCEPT !.dish_image_path = NoneV]]
         ELSE [uploads |-> ups, r |-> r], LAMBDA d1 :
    With(UnlinkAll(d1.uploads, form.delete_step_image, new_slug), LAMBDA ups2 :
    [uploads |-> IF form.dish_image # NoUpload /\ Truthy(d1.r.dish_image_path)
                 THEN _unlink_if_exists(ups2, d1.r.dish_image_path, new_slug)
                 ELSE ups2,
     r |-> d1.r]))

\* recipe_edit_action
recipe_edit_action(fs, ups, s, form) ==
    With(read_recipe(fs, s), LAMBDA existing :
    IF ~existing.found THEN [files |-> fs, uploads |-> ups, status |-> "not_found"]
    ELSE IF ~existing.loaded.ok THEN [files |-> fs, uploads |-> ups, status |-> "error"]
    ELSE
    With(_parse_ingredients(form.ingredients), LAMBDA ingredients :
    IF ~ingredients.ok THEN [files |-> fs, uploads |-> ups, status |-> "error"]
    ELSE
    With(EditSteps(existing.loaded.r, form), LAMBDA steps_text :
    With(Recipe([title |-> Strip(form.title),
                 tags |-> normalize_tags(ListV(form.tags)),
                 ingredients |-> ingredients.args,
                 steps |-> PreservedSteps(existing.loaded.r, steps_text,
                                          form.delete_step_image),
                 dish_image_path |-> existing.loaded.r.dish_image_path]),
         LAMBDA made :
    IF ~made.ok THEN [files |-> fs, uploads |-> ups, status |-> "invalid"]
    ELSE
    With(slug_for_title(made.r.title), LAMBDA new_slug :
    With(MoveToSlug(ups, made.r, s, new_slug), LAMBDA moved :
    With(EditDeletions(moved.uploads, moved.r, new_slug, form), LAMBDA kept :
    With(SaveFormImages(kept.uploads, new_slug, kept.r, form), LAMBDA images :
    IF ~images.ok
    THEN [files |-> fs, uploads |-> images.uploads, status |-> "invalid"]
    ELSE
    With(write_recipe(fs, s, images.r), LAMBDA wrote :
    [files |-> wrote.files, uploads |-> images.uploads,
     status |-> "ok", slug |-> wrote.slug, written |-> images.r])))))))))

\* recipe_delete_action
recipe_delete_action(fs, ups, s) ==
    [files |-> delete_recipe(fs, s).files,
     uploads |-> rmtree_silent(ups, s),
     status |-> "ok"]

----------------------------------------------------------------------------
(* Bulk import (services/recipes_yaml.py).                                 *)

RECURSIVE ImportItems_SuppliedSlug(_, _, _, _, _)
\* a plausible slip: the record is written at the slug the item supplies
ImportItems_SuppliedSlug(fs, items, idx, created, updated) ==
    IF idx > Len(items)
    THEN [ok |-> TRUE, files |-> fs, created |-> created, updated |-> updated]
    ELSE With(Recipe(FromYaml(items[idx])), LAMBDA r :
         IF ~r.ok THEN [ok |-> FALSE, files |-> fs]
         ELSE With(items[idx].slug, LAMBDA s :
              With(Put(fs, s, dict_for_yaml(r.r)), LAMBDA fs1 :
              IF s \in DOMAIN fs
              THEN ImportItems_SuppliedSlug(fs1, items, idx + 1, created, updated + 1)
              ELSE ImportItems_SuppliedSlug(fs1, items, idx + 1, created + 1, updated))))

RECURSIVE ImportItems(_, _, _, _, _)
\* the loop of import_from_json from item idx on: Recipe(...) is given the
\* item's title, tags, ingredients, steps and dish_image_path (a key left
\* out takes its default, any other key is not read); an item Recipe(...)
\* rejects raises, and the items before it stay written
ImportItems(fs, items, idx, created, updated) ==
    IF idx > Len(items)
    THEN [ok |-> TRUE, files |-> fs, created |-> created, updated |-> updated]
    ELSE With(Recipe(FromYaml(items[idx])), LAMBDA r :
         IF ~r.ok THEN [ok |-> FALSE, files |-> fs]
         ELSE With(slug_for_title(r.r.title), LAMBDA s :
              With(write_recipe(fs, s, r.r).files, LAMBDA fs1 :
              IF s \in DOMAIN fs
              THEN ImportItems(fs1, items, idx + 1, created, updated + 1)
              ELSE ImportItems(fs1, items, idx + 1, created + 1, updated))))

\* a plausible slip: an item counts as updated only when an earlier item
\* of the batch had its slug
import_from_json_SeenInBatch(fs, items) ==
    With(ImportItems(<<>>, items, 1, 0, 0), LAMBDA batch :
    With(ImportItems(fs, items, 1, 0, 0), LAMBDA out :
    IF out.ok THEN [out EXCEPT !.created = batch.created, !.updated = batch.updated]
    ELSE out))

\* a plausible slip: the files written before a failing item are rolled back
import_from_json_AllOrNothing(fs, items) ==
    With(ImportItems(fs, items, 1, 0, 0), LAMBDA out :
    IF out.ok THEN out ELSE [ok |-> FALSE, files |-> fs])

\* import_from_json on the decoded payload
import_from_json(fs, items) == ImportItems(fs, items, 1, 0, 0)

----------------------------------------------------------------------------
(* The application: requests served one after the other.                   *)

StoreTitles == {<<"A">>, <<"B">>, <<" ">>}
StoreSlugs == {<<"a">>, <<"b">>}
TextMix == <<"m", "i", "x">>
GoodCover == Upload(<<"c">>, "jpeg")
GoodStepImage == Upload(<<"s">>, "jpeg")
BadImage == Upload(<<"c">>, "gif")

\* the API form of a recipe with one ingredient and one step
ApiForm(t, img) ==
    [title |-> t,
     tags |-> <<>>,
     ingredients |-> <<[name |-> TextSalt, weight |-> IntV(2), unit |-> StrV(<<"g">>)]>>,
     steps |-> <<TextMix>>,
     dish_image |-> img]

ApiForms ==
    {ApiForm(t, img) : t \in StoreTitles \cup {<<"a", "!">>}, img \in {NoUpload, GoodCover, BadImage}}
    \cup {[ApiForm(<<"A">>, NoUpload) EXCEPT !.ingredients = <<>>]}

\* the HTML form of a recipe with one ingredient row and one step
PageForm(t, img, simg, del) ==
    [title |-> t,
     tags |-> <<>>,
     ingredients |-> <<[name |-> TextSalt, weight |-> <<"1">>, unit |-> <<"g">>]>>,
     step_text |-> <<TextMix>>,
     step_list |-> <<>>,
     dish_image |-> img,
     step_image |-> simg,
     delete_dish |-> del,
     delete_step_image |-> {}]

PageForms ==
    {PageForm(t, NoUpload, simg, FALSE) :
        t \in StoreTitles \ {<<" ">>}, simg \in {<<>>, <<GoodStepImage>>}}
    \cup {PageForm(<<" ">>, NoUpload, <<>>, FALSE),
          PageForm(<<"A">>, GoodCover, <<>>, FALSE),
          PageForm(<<"B">>, BadImage, <<>>, FALSE),
          PageForm(<<"B">>, NoUpload, <<>>, TRUE),
          [PageForm(<<"A">>, NoUpload, <<>>, FALSE) EXCEPT !.ingredients = <<>>],
          [PageForm(<<"A">>, NoUpload, <<>>, FALSE) EXCEPT !.step_text = <<>>]}

ImportItemsOf ==
    [title : {<<"A">>, <<"a", "!">>, <<"B">>, <<>>},
     tags : {NoneV},
     ingredients : {<<[name |-> TextSalt, weight |-> NoneV, unit |-> NoneV]>>},
     steps : {<<StrV(TextMix)>>},
     dish_image_path : {NoneV}]

Init ==
    /\ ReqIdle
    /\ files = <<>>
    /\ uploads = <<>>
    /\ last = [op |-> "none"]
    /\ SlugIdle /\ AwIdle /\ SearchIdle

Respond(op, s, out) ==
    /\ files' = out.files
    /\ uploads' = out.uploads
    /\ last' = IF out.status = "ok"
               THEN [op |-> op, slug |-> s, status |-> "ok", new_slug |-> out.slug,
                     written |-> out.written]
               ELSE [op |-> op, slug |-> s, status |-> out.status]
    /\ UNCHANGED <<slugVars, awVars, searchVars, reqVars>>

\* POST /api/recipes
ApiCreate ==
    \E form \in ApiForms :
        \E out \in {api_create_recipe(files, uploads, form)} :
            Respond("api_create", <<>>, out)

\* PUT /api/recipes/{slug}
ApiUpdate ==
    \E s \in StoreSlugs, form \in ApiForms :
        \E out \in {api_update_recipe(files, uploads, s, form)} :
            Respond("api_update", s, out)

\* DELETE /api/recipes/{slug}
ApiDelete ==
    \E s \in StoreSlugs :
        \E out \in {api_delete_recipe(files, uploads, s)} :
        /\ files' = out.files
        /\ uploads' = out.uploads
        /\ last' = [op |-> "api_delete", slug |-> s, status |-> out.status]
        /\ UNCHANGED <<slugVars, awVars, searchVars, reqVars>>

\* POST /recipes/new
PageCreate ==
    \E form \in PageForms :
        \E out \in {create_recipe_action(files, uploads, form)} :
           IF out.status = "fallback"
           THEN /\ files' = out.files
                /\ uploads' = out.uploads
                /\ last' = [op |-> "page_create", slug |-> <<>>, status |-> "fallback",
                            new_slug |-> out.slug]
                /\ UNCHANGED <<slugVars, awVars, searchVars, reqVars>>
           ELSE Respond("page_create", <<>>, out)

\* POST /recipes/{slug}/edit
PageEdit ==
    \E s \in StoreSlugs, form \in PageForms :
        \E out \in {recipe_edit_action(files, uploads, s, form)} :
            Respond("page_edit", s, out)

\* POST /recipes/{slug}/delete
PageDelete ==
    \E s \in StoreSlugs :
        \E out \in {recipe_delete_action(files, uploads, s)} :
        /\ files' = out.files
        /\ uploads' = out.uploads
        /\ last' = [op |-> "page_delete", slug |-> s, status |-> "ok"]
        /\ UNCHANGED <<slugVars, awVars, searchVars, reqVars>>

\* POST /api/import
ApiImport ==
    \E n \in 1..MaxImport : \E items \in [1..n -> ImportItemsOf] :
        \E out \in {import_from_json(files, items)} :
           /\ files' = out.files
           /\ last' = IF out.ok
                      THEN [op |-> "import", slug |-> <<>>, status |-> "ok",
                            created |-> out.created, updated |-> out.updated]
                      ELSE [op |-> "import", slug |-> <<>>, status |-> "error"]
           /\ UNCHANGED <<uploads, slugVars, awVars, searchVars, reqVars>>

\* the JSON API and the bulk import
Next ==
    \/ ApiCreate
    \/ ApiUpdate
    \/ ApiDelete
    \/ ApiImport

Spec == Init /\ [][Next]_vars

\* the HTML form handlers
NextPages ==
    \/ PageCreate
    \/ PageEdit
    \/ PageDelete

SpecPages == Init /\ [][NextPages]_vars

----------------------------------------------------------------------------
(* Listing, search and pagination.                                         *)

\* ord(ch)
Ord(ch) ==
    CASE ch = " " -> 32
      [] ch = "!" -> 33
      [] ch = "-" -> 45
      [] ch = "." -> 46
      [] ch = "1" -> 49
      [] ch \in AsciiUpper -> 64 + (CHOOSE i \in 1..26 : UpperSeq[i] = ch)
      [] ch \in AsciiLower -> 96 + (CHOOSE i \in 1..26 : LowerSeq[i] = ch)
      [] ch = "U+00C9" -> 201
      [] ch = "U+00E9" -> 233
      [] ch = "U+4E00" -> 19968
      [] ch = "U+6B65" -> 27493
      [] ch = "U+997F" -> 39295
      [] ch = "U+9AA4" -> 39588

RECURSIVE StrLess(_, _)
\* a < b on str
StrLess(a, b) ==
    IF b = <<>> THEN FALSE
    ELSE IF a = <<>> THEN TRUE
    ELSE IF Head(a) # Head(b) THEN Ord(Head(a)) < Ord(Head(b))
    ELSE StrLess(Tail(a), Tail(b))

YamlExt == <<".", "y", "a", "m", "l">>

RECURSIVE SortedStems_BySlug(_)
\* a plausible slip: the files are sorted by stem, not by file name
SortedStems_BySlug(stems) ==
    IF stems = {} THEN <<>>
    ELSE LET first == CHOOSE s \in stems : \A t \in stems \ {s} : StrLess(s, t)
         IN <<first>> \o SortedStems_BySlug(stems \ {first})

RECURSIVE SortedStems(_)
\* the stems of sorted(RECIPES_DIR.glob("*.yaml")): paths of one directory
\* compare by file name
SortedStems(stems) ==
    IF stems = {} THEN <<>>
    ELSE LET first == CHOOSE s \in stems :
                \A t \in stems \ {s} : StrLess(s \o YamlExt, t \o YamlExt)
         IN <<first>> \o SortedStems(stems \ {first})

list_recipe_files(fs) == SortedStems(DOMAIN fs)

\* get_all_recipes: (slug, recipe) of every file that loads, in file order
get_all_recipes(fs) ==
    LET stems == list_recipe_files(fs)
        loaded == [i \in 1..Len(stems) |->
                    [slug |-> stems[i], loaded |-> load_recipe_by_path(fs[stems[i]])]]
        good == SelectSeq(loaded, LAMBDA x : x.loaded.ok)
    IN [i \in 1..Len(good) |-> [slug |-> good[i].slug, r |-> good[i].loaded.r]]

\* `a in b` on str
Contains(b, a) == \E i \in 0..(Len(b) - Len(a)) : SubSeq(b, i + 1, i + Len(a)) = a

TagsOf(r) == IF r.tags.k = "list" THEN r.tags.v ELSE <<>>

\* a plausible slip: the tag filter matches substrings, as q does
matches_TagSubstring(r, q, tag, ingredient) ==
    /\ Truthy(q) =>
        \/ Contains(LowerStr(r.title), LowerStr(q.v))
        \/ \E i \in 1..Len(TagsOf(r)) : Contains(LowerStr(TagsOf(r)[i]), LowerStr(q.v))
    /\ Truthy(tag) =>
        \E i \in 1..Len(TagsOf(r)) : Contains(LowerStr(TagsOf(r)[i]), LowerStr(tag.v))
    /\ Truthy(ingredient) =>
        \E i \in 1..Len(r.ingredients) :
            Contains(LowerStr(r.ingredients[i].name), LowerStr(ingredient.v))

\* search_recipes.matches
matches(r, q, tag, ingredient) ==
    /\ Truthy(q) =>
        \/ Contains(LowerStr(r.title), LowerStr(q.v))
        \/ \E i \in 1..Len(TagsOf(r)) : Contains(LowerStr(TagsOf(r)[i]), LowerStr(q.v))
    /\ Truthy(tag) =>
        \E i \in 1..Len(TagsOf(r)) : LowerStr(tag.v) = LowerStr(TagsOf(r)[i])
    /\ Truthy(ingredient) =>
        \E i \in 1..Len(r.ingredients) :
            Contains(LowerStr(r.ingredients[i].name), LowerStr(ingredient.v))

\* the page size search_recipes and the API take when none is given
DefaultPageSize == 20
\* the page size paginate takes when the one given is below 1
FallbackPageSize == 10

\* a plausible slip: the slice starts at page * page_size
paginate_FromZero(items, page, page_size) ==
    LET p == IF page < 1 THEN 1 ELSE page
        size == IF page_size < 1 THEN FallbackPageSize ELSE page_size
        start == p * size
        end == start + size
    IN SubSeq(items, start + 1, IF end < Len(items) THEN end ELSE Len(items))

\* paginate(items, page, page_size)
paginate(items, page, page_size) ==
    LET p == IF page < 1 THEN 1 ELSE page
        size == IF page_size < 1 THEN FallbackPageSize ELSE page_size
        start == (p - 1) * size
        end == start + size
    IN SubSeq(items, start + 1, IF end < Len(items) THEN end ELSE Len(items))

\* search_recipes(q, tag, ingredient, page, page_size)
search_recipes(fs, q, tag, ingredient, page, page_size) ==
    LET items == get_all_recipes(fs)
        filtered == SelectSeq(items, LAMBDA x : matches(x.r, q, tag, ingredient))
        paginated == paginate(filtered, page, page_size)
    IN [total |-> Len(filtered),
        items |-> [i \in 1..Len(paginated) |->
            [slug |-> paginated[i].slug,
             title |-> paginated[i].r.title,
             tags |-> TagsOf(paginated[i].r),
             dish_image_path |-> paginated[i].r.dish_image_path]]]

----------------------------------------------------------------------------
(* Export, bulk delete and import.                                         *)

\* a plausible slip: the slug of an exported item is derived from its title
export_all_json_TitleSlug(fs) ==
    With(get_all_recipes(fs), LAMBDA listed :
    [i \in 1..Len(listed) |->
        With(dict_for_yaml(listed[i].r), LAMBDA d :
        [slug |-> slug_for_title(d.title), title |-> d.title, tags |-> d.tags,
         ingredients |-> d.ingredients, steps |-> d.steps,
         dish_image_path |-> d.dish_image_path])])

\* export_all_json: the listed records as dict_for_yaml gives them, each
\* with its slug, in listing order
export_all_json(fs) ==
    With(get_all_recipes(fs), LAMBDA listed :
    [i \in 1..Len(listed) |->
        With(dict_for_yaml(listed[i].r), LAMBDA d :
        [slug |-> listed[i].slug, title |-> d.title, tags |-> d.tags,
         ingredients |-> d.ingredients, steps |-> d.steps,
         dish_image_path |-> d.dish_image_path])])

RECURSIVE recipes_bulk_delete(_, _, _)
\* recipes_bulk_delete: delete_recipe and rmtree_silent for each slug
recipes_bulk_delete(fs, ups, slugs) ==
    IF slugs = {} THEN [files |-> fs, uploads |-> ups]
    ELSE With(CHOOSE x \in slugs : TRUE, LAMBDA s :
         recipes_bulk_delete(delete_recipe(fs, s).files, rmtree_silent(ups, s),
                             slugs \ {s}))

\* a payload is a text that json.loads rejects, or a decoded list of items
NotJson == [k |-> "text"]
JsonList(items) == [k |-> "json", items |-> items]

\* import_from_json(payload), json.loads included
import_payload(fs, payload) ==
    IF payload.k = "text" THEN [ok |-> FALSE, files |-> fs]
    ELSE import_from_json(fs, payload.items)

\* a record file of the store: one ingredient with the given weight
PortDoc(t, w, cover) ==
    dict_for_yaml(Recipe([title |-> t,
                          tags |-> ListV(<< <<"x">> >>),
                          ingredients |-> <<[name |-> TextSalt, weight |-> w,
                                             unit |-> StrV(<<"g">>)]>>,
                          steps |-> <<StrV(TextMix)>>,
                          dish_image_path |-> cover]).r)

\* a file Recipe(...) rejects (no ingredient), as the fallback of
\* create_recipe_action writes it
CorruptDoc == FallbackDoc(<<"C">>, NoneV, <<>>, <<TextMix>>)

\* the files a store may hold: "a" and "b" written by the program, "x" put
\* there by hand under a name that is not the slug of its title, "c" corrupt
PortFiles ==
    [n \in {<<"a">>, <<"b">>, <<"x">>, <<"c">>} |->
        CASE n = <<"a">> -> PortDoc(<<"A">>, FloatV(0), PathV(AssetPath(<<"a">>, NameCover)))
          [] n = <<"b">> -> PortDoc(<<"B">>, FloatV(3), NoneV)
          [] n = <<"x">> -> PortDoc(<<"A">>, NoneV, NoneV)
          [] OTHER -> CorruptDoc]

PortStores == {[n \in D |-> PortFiles[n]] : D \in SUBSET DOMAIN PortFiles}

\* an item of a payload written by hand; it supplies a slug of its own
PortItem(t) ==
    [slug |-> <<"z">>, title |-> t, tags |-> NoneV,
     ingredients |-> <<[name |-> TextSalt, weight |-> IntV(2), unit |-> StrV(<<"g">>)]>>,
     steps |-> <<StrV(TextMix)>>, dish_image_path |-> Missing]

PortItems == {PortItem(t) : t \in {<<"A">>, <<"a", "!">>, <<"B">>, <<>>}}

PortPayloads == {NotJson} \cup {JsonList(items) : items \in SeqsUpTo(PortItems, MaxImport)}

InitPort ==
    /\ ReqIdle
    /\ files \in PortStores
    /\ uploads = <<>>
    /\ last = [op |-> "none"]
    /\ SlugIdle /\ AwIdle /\ SearchIdle

\* GET /api/export
PortExport ==
    /\ last.op = "none"
    /\ last' = [op |-> "export", payload |-> JsonList(export_all_json(files))]
    /\ UNCHANGED <<files, uploads, slugVars, awVars, searchVars, reqVars>>

\* POST /recipes/bulk-delete with every listed slug
PortClear ==
    /\ last.op = "export"
    /\ \E out \in {recipes_bulk_delete(files, uploads,
                                       {get_all_recipes(files)[i].slug :
                                            i \in 1..Len(get_all_recipes(files))})} :
        /\ files' = out.files
        /\ uploads' = out.uploads
    /\ last' = [op |-> "cleared", payload |-> last.payload]
    /\ UNCHANGED <<slugVars, awVars, searchVars, reqVars>>

\* the response of an import and what it was given
Imported(src, n, payload, first, out) ==
    /\ files' = out.files
    /\ last' = [op |-> "import", src |-> src, n |-> n, payload |-> payload,
                before |-> files,
                first |-> IF n = 1 THEN out.files ELSE first,
                ok |-> out.ok,
                created |-> IF out.ok THEN out.created ELSE 0,
                updated |-> IF out.ok THEN out.updated ELSE 0]
    /\ UNCHANGED <<uploads, slugVars, awVars, searchVars, reqVars>>

\* POST /api/import of the payload just exported
PortImportExport ==
    /\ last.op \in {"export", "cleared"}
    /\ \E out \in {import_payload(files, last.payload)} :
        Imported("export", 1, last.payload, files, out)

\* POST /api/import of a payload written by hand
PortImportOther ==
    /\ last.op = "none"
    /\ \E payload \in PortPayloads :
        \E out \in {import_payload(files, payload)} :
            Imported("other", 1, payload, files, out)

\* POST /api/import of the same payload once more
PortImportAgain ==
    /\ last.op = "import"
    /\ last.n = 1
    /\ \E out \in {import_payload(files, last.payload)} :
        Imported(last.src, 2, last.payload, last.first, out)

NextPort ==
    \/ PortExport
    \/ PortClear
    \/ PortImportExport
    \/ PortImportOther
    \/ PortImportAgain

SpecPort == InitPort /\ [][NextPort]_vars

\* C12: importing the JSON that export() produced twice in a row leaves
\* the record files the first import left, and the second import reports
\* created = 0 and updated = the number of items.
C12_ImportIdempotent ==
    (last.op = "import" /\ last.src = "export" /\ last.n = 2) =>
        /\ last.ok
        /\ files = last.first
        /\ last.before = last.first
        /\ last.created = 0
        /\ last.updated = Len(last.payload.items)

\* the export of a store with a corrupt file and a misnamed one, imported
\* twice into the emptied store
C12_Witness ==
    /\ last.op = "import"
    /\ last.src = "export"
    /\ last.n = 2
    /\ Len(last.payload.items) = 3
    /\ DOMAIN files = {<<"a">>, <<"b">>, <<"c">>}
    /\ last.updated = 3

\* what an item of a payload stands for: its slug, whether Recipe(...)
\* accepts it, and the document stored for it
ItemSlug(item) == slugify_title(item.title)
ItemOk(item) == Recipe(FromYaml(item)).ok
ItemDoc(item) == dict_for_yaml(Recipe(FromYaml(item)).r)

\* the directory `before` with every item written at the slug of its title,
\* the last item of a slug winning
Upserted(before, items) ==
    [s \in DOMAIN before \cup {ItemSlug(items[j]) : j \in 1..Len(items)} |->
        LET js == {j \in 1..Len(items) : ItemSlug(items[j]) = s}
        IN IF js = {} THEN before[s]
           ELSE ItemDoc(items[CHOOSE j \in js : \A i \in js : i <= j])]

\* the items before the first one Recipe(...) rejects
ValidPrefix(items) ==
    LET bad == {j \in 1..Len(items) : ~ItemOk(items[j])}
    IN IF bad = {} THEN items
       ELSE SubSeq(items, 1, (CHOOSE j \in bad : \A i \in bad : j <= i) - 1)

\* the names of the files that hold a valid record
ValidNames(fs) == {n \in DOMAIN fs : load_recipe_by_path(fs[n]).ok}

\* C24: the export has one object for each file that holds a valid record
\* and none for the other files, in the order of the listing; the object
\* carries the name of the file as its slug and, in title, tags,
\* ingredients, steps and dish_image_path, the record of the file.
C24_Export ==
    last.op = "export" =>
        LET out == last.payload.items
            listed == get_all_recipes(files)
        IN /\ last.payload.k = "json"
           /\ Len(out) = Cardinality(ValidNames(files))
           /\ {out[i].slug : i \in 1..Len(out)} = ValidNames(files)
           /\ Len(out) = Len(listed)
           /\ \A i \in 1..Len(out) :
                /\ out[i].slug = listed[i].slug
                /\ [title |-> out[i].title, tags |-> out[i].tags,
                    ingredients |-> out[i].ingredients, steps |-> out[i].steps,
                    dish_image_path |-> out[i].dish_image_path]
                       = dict_for_yaml(load_recipe_by_path(files[out[i].slug]).r)
                /\ \A j \in 1..Len(out) :
                      i < j => StrLess(out[i].slug \o YamlExt, out[j].slug \o YamlExt)

\* an export of a store holding a corrupt file and a file whose name is not
\* the slug of its title
C24_Witness ==
    /\ last.op = "export"
    /\ DOMAIN files = {<<"a">>, <<"b">>, <<"x">>, <<"c">>}
    /\ Len(last.payload.items) = 3
    /\ last.payload.items[3].slug = <<"x">>
    /\ last.payload.items[3].title = <<"A">>

\* C13, read literally: when an import fails, whichever item fails, no
\* record file of the store is created or changed.
C13_AllOrNothing ==
    (last.op = "import" /\ ~last.ok) => files = last.before

\* C13: a payload that is not JSON changes no record file; when an item
\* fails validation the import stops there, the items before it stay
\* written and no other file is created or changed.
C13_FailedImport ==
    (last.op = "import" /\ ~last.ok) =>
        IF last.payload.k = "text" THEN files = last.before
        ELSE /\ \E j \in 1..Len(last.payload.items) : ~ItemOk(last.payload.items[j])
             /\ files = Upserted(last.before, ValidPrefix(last.payload.items))

\* a failing second item after a first item that created a file
C13_Witness ==
    /\ last.op = "import"
    /\ ~last.ok
    /\ last.n = 1
    /\ last.payload.k = "json"
    /\ Len(last.payload.items) = 2
    /\ last.payload.items[1].title = <<"B">>
    /\ last.payload.items[2].title = <<>>
    /\ <<"b">> \notin DOMAIN last.before
    /\ <<"b">> \in DOMAIN files

\* C14: a valid batch writes every item at slugify(title), whatever slug
\* the item supplies; an item counts as updated when a file is at its slug
\* when it is processed and as created otherwise; the last item of a slug
\* is the one stored.
C14_ImportUpsert ==
    (last.op = "import" /\ last.ok) =>
        LET items == last.payload.items
            hits == {j \in 1..Len(items) :
                        \/ ItemSlug(items[j]) \in DOMAIN last.before
                        \/ \E i \in 1..(j - 1) : ItemSlug(items[i]) = ItemSlug(items[j])}
        IN /\ files = Upserted(last.before, items)
           /\ last.updated = Cardinality(hits)
           /\ last.created + last.updated = Len(items)

\* two items of one slug, imported where no file was at that slug
C14_Witness ==
    /\ last.op = "import"
    /\ last.ok
    /\ last.n = 1
    /\ Len(last.payload.items) = 2
    /\ last.payload.items[1].title = <<"A">>
    /\ last.payload.items[2].title = <<"a", "!">>
    /\ last.payload.items[1].slug = <<"z">>
    /\ <<"a">> \notin DOMAIN last.before
    /\ <<"z">> \notin DOMAIN files
    /\ files[<<"a">>].title = <<"a", "!">>
    /\ last.created = 1
    /\ last.updated = 1

----------------------------------------------------------------------------
(* get_all_recipes on its own, over directories whose slugs extend one     *)
(* another.                                                                *)

ListTitles == {<<"a">>, <<"a", " ", "b">>, <<"a", " ", "1">>, <<"a", "b">>, <<"b">>}

\* the files create_recipe writes for the titles, and a corrupt file "c"
ListFiles ==
    [n \in {slugify_title(t) : t \in ListTitles} \cup {<<"c">>} |->
        IF n = <<"c">> THEN CorruptDoc
        ELSE PortDoc(CHOOSE t \in ListTitles : slugify_title(t) = n, NoneV, NoneV)]

ListStores == {[n \in D |-> ListFiles[n]] : D \in SUBSET DOMAIN ListFiles}

InitList ==
    /\ ReqIdle
    /\ files \in ListStores
    /\ uploads = <<>>
    /\ last = [op |-> "none"]
    /\ result = [op |-> "none"]
    /\ SlugIdle /\ AwIdle

\* get_all_recipes()
ListAll ==
    /\ result.op = "none"
    /\ result' = [op |-> "list", out |-> get_all_recipes(files)]
    /\ UNCHANGED <<files, uploads, last, slugVars, awVars, reqVars>>

NextList == ListAll

SpecList == InitList /\ [][NextList]_vars

\* list() has one entry for every file that loads and none for the others
ListsValidFiles ==
    /\ {result.out[i].slug : i \in 1..Len(result.out)}
            = {n \in DOMAIN files : load_recipe_by_path(files[n]).ok}
    /\ \A i, j \in 1..Len(result.out) : result.out[i].slug = result.out[j].slug => i = j
    /\ \A i \in 1..Len(result.out) :
            result.out[i].r = load_recipe_by_path(files[result.out[i].slug]).r

\* C15, read literally: list() has one entry for every record file that
\* parses and none for the others, in ascending lexicographic order of slug.
C15_ListingBySlug ==
    result.op = "list" =>
        /\ ListsValidFiles
        /\ \A i, j \in 1..Len(result.out) :
                i < j => StrLess(result.out[i].slug, result.out[j].slug)

\* C15: list() has one entry for every record file that parses and none for
\* the others, in ascending order of file name "<slug>.yaml".
C15_ListingByFileName ==
    result.op = "list" =>
        /\ ListsValidFiles
        /\ \A i, j \in 1..Len(result.out) :
                i < j => StrLess(result.out[i].slug \o YamlExt,
                                 result.out[j].slug \o YamlExt)

\* a corrupt file and two valid ones, one slug extending the other by a
\* hyphen: the longer slug is listed first
C15_Witness ==
    /\ result.op = "list"
    /\ DOMAIN files = {<<"a">>, <<"a", "-", "b">>, <<"c">>}
    /\ Len(result.out) = 2
    /\ result.out[1].slug = <<"a", "-", "b">>
    /\ result.out[2].slug = <<"a">>

----------------------------------------------------------------------------
(* Requests whose slug is not a slug.  A file is named by the path of its  *)
(* stem relative to RECIPES_DIR and a directory by its path relative to    *)
(* UPLOADS_DIR: the slug "../x" names the file x.yaml next to RECIPES_DIR  *)
(* and the directory x next to UPLOADS_DIR.                                *)

UpX == DotDot \o <<"/", "x">>
UpCss == DotDot \o <<"/", "c", "s", "s">>

\* a slug in the URL path is one segment; the bulk-delete form field is
\* free text
PathParamSlugs == {<<"a">>, DotDot}
FormSlugs == {<<"a">>, DotDot, UpX}

PathFiles ==
    [n \in {<<"a">>, <<"b">>, UpX} |->
        IF n = UpX THEN PortDoc(<<"X">>, NoneV, NoneV)
        ELSE PortDoc(IF n = <<"a">> THEN <<"A">> ELSE <<"B">>, NoneV, NoneV)]

PathDirs ==
    [n \in {<<"a">>, UpX, UpCss} |->
        IF n = <<"a">> THEN {NameCover} ELSE {<<"f">>}]

InitPath ==
    /\ ReqIdle
    /\ files \in {[n \in D |-> PathFiles[n]] : D \in SUBSET DOMAIN PathFiles}
    /\ uploads \in {[n \in D |-> PathDirs[n]] : D \in SUBSET DOMAIN PathDirs}
    /\ last = [op |-> "none"]
    /\ SlugIdle /\ AwIdle /\ SearchIdle

\* GET /api/recipes/{slug}
PathRead ==
    \E s \in PathParamSlugs :
        /\ last' = [op |-> "read", slug |-> s,
                    status |-> IF read_recipe(files, s).found THEN "ok" ELSE "not_found"]
        /\ UNCHANGED <<files, uploads, slugVars, awVars, searchVars, reqVars>>

\* PUT /api/recipes/{slug}
PathUpdate ==
    \E s \in PathParamSlugs :
        \E out \in {api_update_recipe(files, uploads, s, ApiForm(<<"B">>, NoUpload))} :
            Respond("api_update", s, out)

\* DELETE /api/recipes/{slug}
PathDelete ==
    \E s \in PathParamSlugs :
        \E out \in {api_delete_recipe(files, uploads, s)} :
            /\ files' = out.files
            /\ uploads' = out.uploads
            /\ last' = [op |-> "api_delete", slug |-> s, status |-> out.status]
            /\ UNCHANGED <<slugVars, awVars, searchVars, reqVars>>

\* POST /recipes/bulk-delete
PathBulkDelete ==
    \E slugs \in SUBSET FormSlugs :
        \E out \in {recipes_bulk_delete(files, uploads, slugs)} :
            /\ files' = out.files
            /\ uploads' = out.uploads
            /\ last' = [op |-> "bulk_delete", slugs |-> slugs, status |-> "ok"]
            /\ UNCHANGED <<slugVars, awVars, searchVars, reqVars>>

NextPath ==
    \/ PathRead
    \/ PathUpdate
    \/ PathDelete
    \/ PathBulkDelete

SpecPath == InitPath /\ [][NextPath]_vars

\* the files and directories that lie outside RECIPES_DIR and UPLOADS_DIR
Outside(f) == [k \in {x \in DOMAIN f : IsPrefix(DotDot \o <<"/">>, x)} |-> f[k]]

\* C17: whatever slug a read, update, delete or bulk delete is given, no
\* file or directory outside the recipes and uploads directories is
\* written, moved or removed.
C17_PathSafety ==
    [][Outside(files') = Outside(files) /\ Outside(uploads') = Outside(uploads)]_vars

----------------------------------------------------------------------------
(* Properties of the record store under the request handlers.              *)

\* C1: after a successful update of the record at slug a whose new title
\* slugifies to b # a, no record file is left at a and the file at b holds
\* the updated content.
C1_RenameConsistency ==
    (last.op = "api_update" /\ last.status = "ok" /\ last.new_slug # last.slug) =>
        /\ last.slug \notin DOMAIN files
        /\ last.new_slug \in DOMAIN files
        /\ files[last.new_slug] = dict_for_yaml(last.written)

\* C3: every (slug, record) pair that list() returns has
\* slug = slugify(record.title), and no two listed records share a slug.
C3_SlugIsFileName ==
    LET listed == get_all_recipes(files)
    IN /\ \A i \in 1..Len(listed) : listed[i].slug = slugify_title(listed[i].r.title)
       /\ \A i, j \in 1..Len(listed) : listed[i].slug = listed[j].slug => i = j

\* an update changed the slug, and two records are listed
C3_Witness ==
    /\ last.op = "api_update"
    /\ last.status = "ok"
    /\ last.new_slug # last.slug
    /\ Len(get_all_recipes(files)) = 2

\* the path is "assets/uploads/<s>/<name>"
UnderNamespace(p, s) ==
    Len(p) = 4 /\ p[1] = StrAssets /\ p[2] = StrUploads /\ p[3] = s

\* the image paths embedded in a stored document
EmbeddedPaths(doc) ==
    (IF Truthy(doc.dish_image_path) THEN {doc.dish_image_path.v} ELSE {})
    \cup {doc.steps[i].image_path.v :
            i \in {j \in 1..Len(doc.steps) :
                    doc.steps[j].k = "dict" /\ Truthy(doc.steps[j].image_path)}}

\* C10: after a successful update that changes a record's slug from a to b,
\* every image path embedded in the persisted record lies under b's asset
\* namespace and none refers to a's.
C10_PathsFollowSlug ==
    (/\ last.op \in {"api_update", "page_edit"}
     /\ last.status = "ok"
     /\ last.new_slug # last.slug) =>
        \A p \in EmbeddedPaths(files[last.new_slug]) :
            UnderNamespace(p, last.new_slug) /\ ~UnderNamespace(p, last.slug)

\* the form handler found that Recipe(...) rejects the submitted record:
\* create_recipe_action then takes its fallback, recipe_edit_action answers
\* 400 (as it does for an image it cannot accept)
RejectedRecord(l) ==
    \/ l.op = "page_create" /\ l.status = "fallback"
    \/ l.op = "page_edit" /\ l.status = "invalid"

\* C16: a create or update request whose record has an empty title, no
\* ingredient or no step is rejected before anything is written: the
\* request leaves every record file as it was.
C16_ValidationBeforeWrite ==
    [][RejectedRecord(last') => files' = files]_vars

\* the text of a step of a record file
StepText(item) == IF item.k = "str" THEN item.v ELSE item.text

\* C26: no record file holds the default step text, which no form of the
\* model supplies: a form without a non-blank step is not padded with it.
C26_NoPadding ==
    \A n \in DOMAIN files : \A i \in 1..Len(files[n].steps) :
        StepText(files[n].steps[i]) # StepPlaceholder

\* the response of a create or update request that was refused
Refused(l) ==
    /\ l.op \in {"api_create", "api_update", "page_create", "page_edit"}
    /\ l.status \in {"error", "invalid"}

\* C27: a create or update request that is refused, an image save_image
\* rejects being one reason, leaves the record files and the upload
\* directories as they were.
C27_FailureAtomicity ==
    [][Refused(last') => (files' = files /\ uploads' = uploads)]_vars

\* C28: an update request addressed to one slug leaves the record file and
\* the upload directory of every other record as they were, whatever the
\* new title is.
C28_UpdateFrame ==
    [][last'.op \in {"api_update", "page_edit"} =>
        \A k \in DOMAIN files \ {last'.slug} :
            /\ k \in DOMAIN files' /\ files'[k] = files[k]
            /\ k \in DOMAIN uploads =>
                  k \in DOMAIN uploads' /\ uploads'[k] = uploads[k]]_vars

\* C30: an API delete that answers not-found leaves every record file and
\* every upload directory as it was, a directory at the slug included.
C30_DeleteNotFound ==
    [][(last'.op = "api_delete" /\ last'.status = "not_found") =>
        (files' = files /\ uploads' = uploads)]_vars

----------------------------------------------------------------------------
(* search_recipes as a function of the directory and of its arguments.     *)

SearchRecord(t, tags, names) ==
    Recipe([title |-> t,
            tags |-> tags,
            ingredients |-> [i \in 1..Len(names) |->
                [name |-> names[i], weight |-> NoneV, unit |-> NoneV]],
            steps |-> <<StrV(TextMix)>>,
            dish_image_path |-> NoneV]).r

RecTom == SearchRecord(<<"T", "o", "m">>, ListV(<< <<"h", "o">> >>), << <<"e", "g", "g">> >>)
RecBun == SearchRecord(<<"B", "u", "n">>, ListV(<< <<"T", "o">>, <<"x">> >>), << <<"o", "a", "t">> >>)
RecAt == SearchRecord(<<"a", "t">>, NoneV, << TextSalt, <<"T", "e", "a">> >>)

RECURSIVE StoreOf(_)
\* the directory after create_recipe of each record of a set
StoreOf(rs) ==
    IF rs = {} THEN <<>>
    ELSE LET r == CHOOSE x \in rs : TRUE
         IN create_recipe(StoreOf(rs \ {r}), r).files

\* the title "1", "11", "111", ...
Ones(n) == [i \in 1..n |-> "1"]

SearchStores ==
    {StoreOf(rs) : rs \in SUBSET {RecTom, RecBun, RecAt}}
    \cup {StoreOf({SearchRecord(Ones(k), NoneV, <<TextSalt>>) : k \in 1..n}) : n \in 1..MaxRecords}

SearchArgs ==
    [q : {NoneV, StrV(<<>>), StrV(<<"t", "o">>), StrV(<<"T", "O">>), StrV(<<"x">>), StrV(<<"t">>)},
     tag : {NoneV, StrV(<<>>), StrV(<<"t", "o">>), StrV(<<"t">>), StrV(<<"H", "O">>)},
     ingredient : {NoneV, StrV(<<"E", "G">>), StrV(<<"a">>), StrV(<<"t", "e", "a">>)},
     page : {1},
     page_size : {DefaultPageSize}]
    \cup
    [q : {NoneV, StrV(<<"t">>)},
     tag : {NoneV},
     ingredient : {NoneV},
     page : {-1, 0, 1, 2, 3},
     page_size : {-5, 0, 1, 3, FallbackPageSize, DefaultPageSize}]

InitSearch ==
    /\ ReqIdle
    /\ files \in SearchStores
    /\ uploads = <<>>
    /\ last = [op |-> "none"]
    /\ result = [op |-> "none"]
    /\ SlugIdle /\ AwIdle

\* GET /api/recipes
Search ==
    /\ result.op = "none"
    /\ \E a \in SearchArgs :
        result' = [op |-> "search", args |-> a,
                   out |-> search_recipes(files, a.q, a.tag, a.ingredient, a.page, a.page_size)]
    /\ UNCHANGED <<storeVars, slugVars, awVars, reqVars>>

NextSearch == Search

SpecSearch == InitSearch /\ [][NextSearch]_vars

\* equality and containment of texts, ignoring case
EqualCI(a, b) == Len(a) = Len(b) /\ \A i \in 1..Len(a) : lower(a[i]) = lower(b[i])
SubstringCI(a, b) ==
    \E i \in 1..(Len(b) + 1) : \E j \in (i - 1)..Len(b) : EqualCI(a, SubSeq(b, i, j))

\* a filter is supplied when it is a non-empty text
Supplied(v) == v.k = "str" /\ v.v # <<>>

\* the record satisfies every supplied filter
Satisfies(r, a) ==
    /\ Supplied(a.q) =>
        \/ SubstringCI(a.q.v, r.title)
        \/ \E i \in 1..Len(TagsOf(r)) : SubstringCI(a.q.v, TagsOf(r)[i])
    /\ Supplied(a.tag) => \E i \in 1..Len(TagsOf(r)) : EqualCI(a.tag.v, TagsOf(r)[i])
    /\ Supplied(a.ingredient) =>
        \E i \in 1..Len(r.ingredients) : SubstringCI(a.ingredient.v, r.ingredients[i].name)

\* C8: search returns exactly the listed records that satisfy all supplied
\* filters, in list() order, and total counts them before pagination.
C8_SearchSemantics ==
    result.op = "search" =>
        LET listed == get_all_recipes(files)
            expected == SelectSeq(listed, LAMBDA x : Satisfies(x.r, result.args))
            items == result.out.items
        IN /\ result.out.total = Len(expected)
           /\ \E offset \in 0..Len(expected) :
                /\ offset + Len(items) <= Len(expected)
                /\ \A i \in 1..Len(items) :
                    /\ items[i].slug = expected[offset + i].slug
                    /\ items[i].title = expected[offset + i].r.title
           /\ (result.args.page = 1 /\ result.args.page_size >= Len(expected))
                => Len(items) = Len(expected)

\* a query that two of three records satisfy, one by its title and one by a
\* tag, while the same text as an exact tag matches one
C8_Witness ==
    /\ result.op = "search"
    /\ DOMAIN files = {<<"t", "o", "m">>, <<"b", "u", "n">>, <<"a", "t">>}
    /\ result.args.q = StrV(<<"T", "O">>)
    /\ result.args.tag = NoneV
    /\ result.args.ingredient = NoneV
    /\ result.out.total = 2
    /\ [i \in 1..2 |-> result.out.items[i].slug] = << <<"b", "u", "n">>, <<"t", "o", "m">> >>

\* the slugs of page p of the search a, in the order of the response
PageSlugs(fs, a, p) ==
    With(search_recipes(fs, a.q, a.tag, a.ingredient, p, a.page_size).items, LAMBDA items :
    [i \in 1..Len(items) |-> items[i].slug])

RECURSIVE PagesUpTo(_, _, _)
\* pages 1 to n, one after the other
PagesUpTo(fs, a, n) ==
    IF n = 0 THEN <<>> ELSE PagesUpTo(fs, a, n - 1) \o PageSlugs(fs, a, n)

\* C29: for a search with page_size >= 1, pages 1, 2, ... one after the
\* other are the records that satisfy the filters, each once and in the
\* order of the listing; the pages after the last one are empty; every page
\* reports the same total; and the response is the page asked for.
C29_PagesPartition ==
    (result.op = "search" /\ result.args.page_size >= 1) =>
        LET a == result.args
            expected == SelectSeq(get_all_recipes(files), LAMBDA x : Satisfies(x.r, a))
            n == (Len(expected) + a.page_size - 1) \div a.page_size
        IN /\ PagesUpTo(files, a, n) = [i \in 1..Len(expected) |-> expected[i].slug]
           /\ \A p \in 1..n : PageSlugs(files, a, p) # <<>>
           /\ \A p \in (n + 1)..(n + 2) : PageSlugs(files, a, p) = <<>>
           /\ \A p \in 1..(n + 2) :
                search_recipes(files, a.q, a.tag, a.ingredient, p, a.page_size).total
                    = Len(expected)
           /\ result.out = search_recipes(files, a.q, a.tag, a.ingredient,
                                          IF a.page < 1 THEN 1 ELSE a.page, a.page_size)
           /\ a.page >= 1 =>
                [i \in 1..Len(result.out.items) |-> result.out.items[i].slug]
                    = PageSlugs(files, a, a.page)

\* the third page, of one record, of seven records three to a page
C29_Witness ==
    /\ result.op = "search"
    /\ Cardinality(DOMAIN files) = 7
    /\ result.args.q = NoneV
    /\ result.args.page_size = 3
    /\ result.args.page = 3
    /\ result.out.total = 7
    /\ Len(result.out.items) = 1
    /\ result.out.items[1].slug = Ones(7)

\* C9: search(page=0, page_size=-5) returns the same total and items as
\* search(page=1) with the default page size, and search on an empty store
\* returns total 0 and no items.
C9_PaginationDefaults ==
    result.op = "search" =>
        /\ (result.args.page = 0 /\ result.args.page_size = -5) =>
            result.out = search_recipes(files, result.args.q, result.args.tag,
                                        result.args.ingredient, 1, DefaultPageSize)
        /\ files = <<>> => result.out = [total |-> 0, items |-> <<>>]

----------------------------------------------------------------------------
(* atomic_write(path, data), one step per statement; the process may die   *)
(* or a statement may raise at any point, and another process may read     *)
(* `path` at any point.                                                    *)

Bytes == {0, 1}

InitAw ==
    /\ ReqIdle
    /\ orig \in {Absent} \cup {FileOf(b) : b \in SeqsUpTo(Bytes, MaxBytes)}
    /\ data \in SeqsUpTo(Bytes, MaxBytes)
    /\ disk = orig
    /\ seen = orig
    /\ tmp = Absent
    /\ pc = "mkdir"
    /\ SlugIdle /\ StoreIdle /\ SearchIdle

\* path.parent.mkdir(parents=True, exist_ok=True)
AwMkdir ==
    /\ pc = "mkdir"
    /\ pc' = "open"
    /\ UNCHANGED <<disk, tmp, data, seen, orig>>
    /\ UNCHANGED <<slugVars, storeVars, searchVars, reqVars>>

\* tempfile.NamedTemporaryFile(delete=False, dir=str(path.parent))
AwOpenTmp ==
    /\ pc = "open"
    /\ tmp' = FileOf(<<>>)
    /\ pc' = "write"
    /\ UNCHANGED <<disk, data, seen, orig>>
    /\ UNCHANGED <<slugVars, storeVars, searchVars, reqVars>>

\* a plausible slip: the payload is written to `path` itself
AwWrite_InPlace ==
    /\ pc = "write"
    /\ \E k \in 1..Len(data) :
        /\ disk' = FileOf(SubSeq(data, 1, k))
        /\ tmp' = FileOf(SubSeq(data, 1, k))
        /\ pc' = IF k = Len(data) THEN "fsync" ELSE "write"
    /\ UNCHANGED <<data, seen, orig>>
    /\ UNCHANGED <<slugVars, storeVars, searchVars, reqVars>>

\* tmp.write(data); tmp.flush(): the bytes reach the temporary file in one
\* or more chunks
AwWrite ==
    /\ pc = "write"
    /\ \/ /\ tmp.bytes = data
          /\ pc' = "fsync"
          /\ tmp' = tmp
       \/ /\ \E k \in (Len(tmp.bytes) + 1)..Len(data) : tmp' = FileOf(SubSeq(data, 1, k))
          /\ pc' = "write"
    /\ UNCHANGED <<disk, data, seen, orig>>
    /\ UNCHANGED <<slugVars, storeVars, searchVars, reqVars>>

\* os.fsync(tmp.fileno()), then the with block closes the file
AwFsync ==
    /\ pc = "fsync"
    /\ pc' = "replace"
    /\ UNCHANGED <<disk, tmp, data, seen, orig>>
    /\ UNCHANGED <<slugVars, storeVars, searchVars, reqVars>>

\* os.replace(tmp_name, path)
AwReplace ==
    /\ pc = "replace"
    /\ disk' = tmp
    /\ tmp' = Absent
    /\ pc' = "done"
    /\ UNCHANGED <<data, seen, orig>>
    /\ UNCHANGED <<slugVars, storeVars, searchVars, reqVars>>

\* a statement raises (disk full, permission denied) or the process dies:
\* nothing after it runs, and the temporary file stays (delete=False)
AwFail ==
    /\ pc \in {"mkdir", "open", "write", "fsync", "replace"}
    /\ pc' = "failed"
    /\ UNCHANGED <<disk, tmp, data, seen, orig>>
    /\ UNCHANGED <<slugVars, storeVars, searchVars, reqVars>>

\* another process reads `path`
AwRead ==
    /\ seen' = disk
    /\ UNCHANGED <<disk, tmp, data, pc, orig>>
    /\ UNCHANGED <<slugVars, storeVars, searchVars, reqVars>>

NextAw ==
    \/ AwMkdir
    \/ AwOpenTmp
    \/ AwWrite
    \/ AwFsync
    \/ AwReplace
    \/ AwFail
    \/ AwRead

SpecAw == InitAw /\ [][NextAw]_vars

\* C2: at every point of atomic_write the content at `path`, and whatever a
\* concurrent reader reads there, is exactly the old content (or absence) or
\* exactly the full payload; until the rename, and after a failure, it is
\* the old content.
C2_AtomicWrite ==
    /\ disk \in {orig, FileOf(data)}
    /\ seen \in {orig, FileOf(data)}
    /\ pc \in {"mkdir", "open", "write", "fsync", "replace", "failed"} => disk = orig
    /\ pc = "done" => disk = FileOf(data)

\* a crash in the middle of the write, seen by a reader
C2_Witness ==
    /\ pc = "failed"
    /\ orig.exists
    /\ tmp.exists
    /\ tmp.bytes # <<>>
    /\ tmp.bytes # data
    /\ FileOf(data) # orig
    /\ disk = orig
    /\ seen = orig

----------------------------------------------------------------------------
(* read_recipe and delete_recipe on their own, on directories that hold    *)
(* valid files, files Recipe(...) rejects and a file that is not YAML.     *)

\* the files a directory may hold: "a" and "b" valid, "c" without
\* ingredients, "e" with an empty title, "y" not YAML
RdFiles ==
    [n \in {<<"a">>, <<"b">>, <<"c">>, <<"e">>, <<"y">>} |->
        CASE n = <<"a">> -> PortDoc(<<"A">>, FloatV(0), PathV(AssetPath(<<"a">>, NameCover)))
          [] n = <<"b">> -> PortDoc(<<"B">>, FloatV(3), NoneV)
          [] n = <<"c">> -> CorruptDoc
          [] n = <<"e">> -> [PortDoc(<<"E">>, NoneV, NoneV) EXCEPT !.title = <<>>]
          [] OTHER -> NotYaml]

\* the upload directories that may exist beside them
RdDirs == [n \in {<<"a">>, <<"c">>} |-> {NameCover}]

\* the slugs asked for: those of the files, and one that never has a file
RdSlugs == DOMAIN RdFiles \cup {<<"n">>}

InitRd ==
    /\ ReqIdle
    /\ files \in {[n \in D |-> RdFiles[n]] : D \in SUBSET DOMAIN RdFiles}
    /\ uploads \in {[n \in D |-> RdDirs[n]] : D \in SUBSET DOMAIN RdDirs}
    /\ last = [op |-> "none"]
    /\ SlugIdle /\ AwIdle /\ SearchIdle

\* r = read_recipe(slug)
RdRead ==
    \E s \in RdSlugs :
        /\ last' = [op |-> "read", slug |-> s, out |-> read_recipe(files, s)]
        /\ UNCHANGED <<files, uploads, slugVars, awVars, searchVars, reqVars>>

\* ok = delete_recipe(slug)
RdDelete ==
    \E s \in RdSlugs : \E out \in {delete_recipe(files, s)} :
        /\ files' = out.files
        /\ last' = [op |-> "delete", slug |-> s, ok |-> out.ok,
                    before |-> files, dirs |-> uploads]
        /\ UNCHANGED <<uploads, slugVars, awVars, searchVars, reqVars>>

NextRd == RdRead \/ RdDelete

SpecRd == InitRd /\ [][NextRd]_vars

\* the constraints of the Recipe model on a file's content: it is YAML, the
\* title is not empty, there is an ingredient, every ingredient has a name
\* and a weight that is None or a number, and some step has a text
ValidDoc(doc) ==
    /\ doc # NotYaml
    /\ Len(doc.title) >= 1
    /\ Len(doc.ingredients) >= 1
    /\ \A i \in 1..Len(doc.ingredients) :
          /\ Len(doc.ingredients[i].name) >= 1
          /\ \/ doc.ingredients[i].weight.k \in {"missing", "none", "int", "float"}
             \/ /\ doc.ingredients[i].weight.k = "str"
                /\ IsFloatText(doc.ingredients[i].weight.v)
    /\ \E i \in 1..Len(doc.steps) :
          Strip(IF doc.steps[i].k = "str" THEN doc.steps[i].v ELSE doc.steps[i].text) # <<>>

\* C19: read_recipe(slug) returns None exactly when the directory has no
\* file at the slug; on a file that is not a valid record it raises, and
\* on a valid file it returns the whole record of the file.
C19_ReadOutcomes ==
    last.op = "read" =>
        /\ ~last.out.found <=> last.slug \notin DOMAIN files
        /\ last.slug \in DOMAIN files /\ ~ValidDoc(files[last.slug]) =>
              last.out.found /\ ~last.out.loaded.ok
        /\ last.slug \in DOMAIN files /\ ValidDoc(files[last.slug]) =>
              /\ last.out.found /\ last.out.loaded.ok
              /\ dict_for_yaml(last.out.loaded.r) = files[last.slug]

C19_Witness ==
    /\ last.op = "read"
    /\ last.slug = <<"y">>
    /\ <<"y">> \in DOMAIN files
    /\ last.out.found
    /\ ~last.out.loaded.ok

\* C20: delete_recipe(slug) returns True exactly when the file existed;
\* afterwards read_recipe(slug) returns None, every other file is what it
\* was, and the upload directories are what they were.
C20_Delete ==
    last.op = "delete" =>
        /\ last.ok <=> last.slug \in DOMAIN last.before
        /\ ~read_recipe(files, last.slug).found
        /\ DOMAIN files = DOMAIN last.before \ {last.slug}
        /\ \A k \in DOMAIN files : files[k] = last.before[k]
        /\ uploads = last.dirs

C20_Witness ==
    /\ last.op = "delete"
    /\ last.ok
    /\ last.slug = <<"a">>
    /\ <<"b">> \in DOMAIN files
    /\ <<"a">> \in DOMAIN uploads

----------------------------------------------------------------------------
(* create_recipe and write_recipe on their own, on the same directories.   *)

\* the records handed to the store: titles with the slugs "a", "a", "b"
\* and "n", with and without a weight
WrRecords ==
    {Recipe([title |-> t, tags |-> NoneV,
             ingredients |-> <<[name |-> TextSalt, weight |-> w, unit |-> StrV(<<"g">>)]>>,
             steps |-> <<StrV(TextMix)>>, dish_image_path |-> NoneV]).r :
        t \in {<<"A">>, <<"a", "!">>, <<"B">>, <<"N">>}, w \in {NoneV, IntV(2)}}

InitWr ==
    /\ ReqIdle
    /\ files \in {[n \in D |-> RdFiles[n]] : D \in SUBSET {<<"a">>, <<"b">>, <<"c">>}}
    /\ uploads = <<>>
    /\ last = [op |-> "none"]
    /\ SlugIdle /\ AwIdle /\ SearchIdle

\* slug = create_recipe(r)
WrCreate ==
    \E r \in WrRecords : \E out \in {create_recipe(files, r)} :
        /\ files' = out.files
        /\ last' = [op |-> "create", r |-> r, slug |-> out.slug, before |-> files]
        /\ UNCHANGED <<uploads, slugVars, awVars, searchVars, reqVars>>

\* final_slug = write_recipe(slug, r)
WrUpdate ==
    \E s \in RdSlugs, r \in WrRecords : \E out \in {write_recipe(files, s, r)} :
        /\ files' = out.files
        /\ last' = [op |-> "update", old_slug |-> s, r |-> r, slug |-> out.slug,
                    before |-> files]
        /\ UNCHANGED <<uploads, slugVars, awVars, searchVars, reqVars>>

NextWr == WrCreate \/ WrUpdate

SpecWr == InitWr /\ [][NextWr]_vars

\* C21: an update addressed to a slug at which the directory has no file
\* writes no file.
C21_UpdateMissing ==
    (last.op = "update" /\ last.old_slug \notin DOMAIN last.before) =>
        files = last.before

\* C23: create_recipe(r) on a directory that has a file at the slug of
\* r's title returns that slug, leaves the set of file names as it was and
\* the other files as they were, and the file at the slug holds r; creating
\* r once more changes nothing.
C23_CreateOverwrites ==
    last.op = "create" =>
        /\ last.slug = slugify_title(last.r.title)
        /\ files[last.slug] = dict_for_yaml(last.r)
        /\ \A k \in DOMAIN last.before \ {last.slug} :
              k \in DOMAIN files /\ files[k] = last.before[k]
        /\ last.slug \in DOMAIN last.before =>
              /\ DOMAIN files = DOMAIN last.before
              /\ Cardinality(DOMAIN files) = Cardinality(DOMAIN last.before)
        /\ create_recipe(files, last.r).files = files
        /\ create_recipe(files, last.r).slug = last.slug

\* a create over a file that held another record
C23_Witness ==
    /\ last.op = "create"
    /\ last.slug = <<"a">>
    /\ <<"a">> \in DOMAIN last.before
    /\ last.before[<<"a">>] # dict_for_yaml(last.r)
    /\ files[<<"a">>] = dict_for_yaml(last.r)
    /\ <<"b">> \in DOMAIN files

----------------------------------------------------------------------------
(* Two PUT /api/recipes/{slug} requests served by one event loop. The      *)
(* handler is a coroutine: it runs without interruption up to               *)
(* `await dish_image.read()`, which it reaches only when a file was sent,   *)
(* and from there to its end.                                               *)

CoProcs == {1, 2}

\* a request that has not begun
CoReq(s, form) ==
    [slug |-> s, form |-> form, pc |-> "start", status |-> "pending",
     new_slug |-> <<>>, updated |-> NoneV]

Ended(req, status) == [req EXCEPT !.pc = "done", !.status = status]

\* api_update_recipe from its first line to the await, or to its end when
\* no file was sent
api_update_begin(fs, ups, req) ==
    With(read_recipe(fs, req.slug), LAMBDA existing :
    IF ~existing.found
    THEN [files |-> fs, uploads |-> ups, req |-> Ended(req, "not_found")]
    ELSE IF ~existing.loaded.ok
    THEN [files |-> fs, uploads |-> ups, req |-> Ended(req, "error")]
    ELSE
    With(Recipe(ApiRaw(req.form, existing.loaded.r.dish_image_path)), LAMBDA made :
    IF ~made.ok THEN [files |-> fs, uploads |-> ups, req |-> Ended(req, "error")]
    ELSE
    With(slug_for_title(made.r.title), LAMBDA new_slug :
    With(MoveToSlug(ups, made.r, req.slug, new_slug), LAMBDA moved :
    IF req.form.dish_image = NoUpload
    THEN With(write_recipe(fs, req.slug, moved.r), LAMBDA wrote :
         [files |-> wrote.files, uploads |-> moved.uploads,
          req |-> [req EXCEPT !.pc = "done", !.status = "ok",
                              !.new_slug = wrote.slug, !.updated = moved.r]])
    ELSE [files |-> fs, uploads |-> moved.uploads,
          req |-> [req EXCEPT !.pc = "await", !.new_slug = new_slug,
                              !.updated = moved.r]]))))

\* api_update_recipe from the await to its end
api_update_finish(fs, ups, req) ==
    IF ~ImageOk(req.form.dish_image)
    THEN [files |-> fs, uploads |-> ups, req |-> Ended(req, "error")]
    ELSE
    With(save_image(ups, req.new_slug, req.form.dish_image), LAMBDA saved :
    With([req.updated EXCEPT !.dish_image_path = PathV(saved.path)], LAMBDA updated :
    With(write_recipe(fs, req.slug, updated), LAMBDA wrote :
    [files |-> wrote.files, uploads |-> saved.uploads,
     req |-> [req EXCEPT !.pc = "done", !.status = "ok",
                         !.new_slug = wrote.slug, !.updated = updated]])))

\* the directory the requests find: the recipes "A" and "B", each with a
\* cover in its upload directory
CoFiles ==
    [n \in {<<"a">>, <<"b">>} |->
        IF n = <<"a">>
        THEN PortDoc(<<"A">>, FloatV(0), PathV(AssetPath(<<"a">>, NameCover)))
        ELSE PortDoc(<<"B">>, FloatV(3), PathV(AssetPath(<<"b">>, NameCover)))]
CoDirs == [n \in {<<"a">>, <<"b">>} |-> {NameCover}]

CoForms ==
    {ApiForm(t, img) : t \in {<<"A">>, <<"B">>, <<"X">>, <<"Y">>},
                       img \in {NoUpload, GoodStepImage}}

InitCo ==
    /\ files = CoFiles
    /\ uploads = CoDirs
    /\ last = [op |-> "none"]
    /\ reqs \in [CoProcs -> {CoReq(s, form) : s \in {<<"a">>, <<"b">>}, form \in CoForms}]
    /\ SlugIdle /\ AwIdle /\ SearchIdle

CoStep(p, out) ==
    /\ files' = out.files
    /\ uploads' = out.uploads
    /\ reqs' = [reqs EXCEPT ![p] = out.req]
    /\ UNCHANGED <<last, slugVars, awVars, searchVars>>

CoBegin ==
    \E p \in CoProcs :
        /\ reqs[p].pc = "start"
        /\ \E out \in {api_update_begin(files, uploads, reqs[p])} : CoStep(p, out)

CoFinish ==
    \E p \in CoProcs :
        /\ reqs[p].pc = "await"
        /\ \E out \in {api_update_finish(files, uploads, reqs[p])} : CoStep(p, out)

NextCo == CoBegin \/ CoFinish

SpecCo == InitCo /\ [][NextCo]_vars

\* the directories after request p and then request q, one after the other
OneAfterTheOther(p, q) ==
    With(api_update_recipe(CoFiles, CoDirs, reqs[p].slug, reqs[p].form), LAMBDA first :
    With(api_update_recipe(first.files, first.uploads, reqs[q].slug, reqs[q].form),
         LAMBDA second :
    [files |-> second.files, uploads |-> second.uploads]))

\* the slugs a request reads or writes
Touched(req) == {req.slug, slug_for_title(Strip(req.form.title))}

AllDone == \A p \in CoProcs : reqs[p].pc = "done"

\* C22: when both requests have completed, (1) if they were addressed to
\* different slugs and neither touches a slug of the other, the directories
\* are what one of the two sequential orders gives; (2) if they were
\* addressed to the same slug, then of the file names the two requests
\* touched exactly one is left, and it holds the whole record of one request.
C22_ConcurrentEdits ==
    AllDone =>
        /\ Touched(reqs[1]) \cap Touched(reqs[2]) = {} =>
              [files |-> files, uploads |-> uploads]
                  \in {OneAfterTheOther(1, 2), OneAfterTheOther(2, 1)}
        /\ reqs[1].slug = reqs[2].slug =>
              \E p \in CoProcs :
                  /\ (Touched(reqs[1]) \cup Touched(reqs[2])) \cap DOMAIN files
                         = {reqs[p].new_slug}
                  /\ files[reqs[p].new_slug] = dict_for_yaml(reqs[p].updated)

\* C22, part (1) alone
CoDisjointEdits ==
    (AllDone /\ Touched(reqs[1]) \cap Touched(reqs[2]) = {}) =>
        [files |-> files, uploads |-> uploads]
            \in {OneAfterTheOther(1, 2), OneAfterTheOther(2, 1)}

\* C22, part (2) for two edits that keep the title
CoSameTitle ==
    (AllDone /\ reqs[1].slug = reqs[2].slug
        /\ \A p \in CoProcs : slug_for_title(Strip(reqs[p].form.title)) = reqs[p].slug) =>
        \E p \in CoProcs :
            /\ reqs[p].new_slug = reqs[p].slug
            /\ files[reqs[p].slug] = dict_for_yaml(reqs[p].updated)

----------------------------------------------------------------------------
(* One update request, PUT /api/recipes/{slug} or POST /recipes/{slug}/edit, *)
(* followed through the handler one effect at a time: the checks, the       *)
(* relocation of the upload directory, the images, the record.              *)

OrdReq(h, s, form) ==
    [handler |-> h, slug |-> s, form |-> form, pc |-> "start", status |-> "pending",
     new_slug |-> <<>>, updated |-> NoneV]

\* from the first line of the handler to new_slug = slug_for_title(...)
update_prepare(fs, req) ==
    With(read_recipe(fs, req.slug), LAMBDA existing :
    IF ~existing.found THEN Ended(req, "not_found")
    ELSE IF ~existing.loaded.ok THEN Ended(req, "error")
    ELSE IF req.handler = "api"
    THEN With(Recipe(ApiRaw(req.form, existing.loaded.r.dish_image_path)), LAMBDA made :
         IF ~made.ok THEN Ended(req, "error")
         ELSE [req EXCEPT !.pc = "move", !.updated = made.r,
                          !.new_slug = slug_for_title(made.r.title)])
    ELSE
    With(_parse_ingredients(req.form.ingredients), LAMBDA ingredients :
    IF ~ingredients.ok THEN Ended(req, "error")
    ELSE
    With(EditSteps(existing.loaded.r, req.form), LAMBDA steps_text :
    With(Recipe([title |-> Strip(req.form.title),
                 tags |-> normalize_tags(ListV(req.form.tags)),
                 ingredients |-> ingredients.args,
                 steps |-> PreservedSteps(existing.loaded.r, steps_text,
                                          req.form.delete_step_image),
                 dish_image_path |-> existing.loaded.r.dish_image_path]),
         LAMBDA made :
    IF ~made.ok THEN Ended(req, "invalid")
    ELSE [req EXCEPT !.pc = "move", !.updated = made.r,
                     !.new_slug = slug_for_title(made.r.title)]))))

\* if new_slug != slug: move_tree(...) and the cover path rewritten
update_move(ups, req) ==
    With(MoveToSlug(ups, req.updated, req.slug, req.new_slug), LAMBDA moved :
    [uploads |-> moved.uploads,
     req |-> [req EXCEPT !.pc = "save", !.updated = moved.r]])

\* the images: deleted and saved under new_slug
update_save(ups, req) ==
    IF req.handler = "api"
    THEN IF req.form.dish_image = NoUpload
         THEN [uploads |-> ups, req |-> [req EXCEPT !.pc = "write"]]
         ELSE IF ~ImageOk(req.form.dish_image)
         THEN [uploads |-> ups, req |-> Ended(req, "error")]
         ELSE With(save_image(ups, req.new_slug, req.form.dish_image), LAMBDA saved :
              [uploads |-> saved.uploads,
               req |-> [req EXCEPT !.pc = "write",
                                   !.updated = [@ EXCEPT !.dish_image_path =
                                                    PathV(saved.path)]]])
    ELSE
    With(EditDeletions(ups, req.updated, req.new_slug, req.form), LAMBDA kept :
    With(SaveFormImages(kept.uploads, req.new_slug, kept.r, req.form), LAMBDA images :
    IF ~images.ok THEN [uploads |-> images.uploads, req |-> Ended(req, "invalid")]
    ELSE [uploads |-> images.uploads,
          req |-> [req EXCEPT !.pc = "write", !.updated = images.r]]))

\* final_slug = write_recipe(slug, updated)
update_write(fs, req) ==
    With(write_recipe(fs, req.slug, req.updated), LAMBDA wrote :
    [files |-> wrote.files,
     req |-> [req EXCEPT !.pc = "done", !.status = "ok", !.new_slug = wrote.slug]])

OrdReqs ==
    {OrdReq("api", s, form) : s \in StoreSlugs, form \in ApiForms}
    \cup {OrdReq("page", s, form) : s \in StoreSlugs, form \in PageForms}

\* the recipes "A" and "B" are on disk; each may have an upload directory
InitOrd ==
    /\ files = CoFiles
    /\ uploads \in {[n \in D |-> CoDirs[n]] : D \in SUBSET DOMAIN CoDirs}
    /\ last = [op |-> "begin", files |-> files, uploads |-> uploads]
    /\ reqs \in [{1} -> OrdReqs]
    /\ SlugIdle /\ AwIdle /\ SearchIdle

OrdPrepare ==
    /\ reqs[1].pc = "start"
    /\ reqs' = [reqs EXCEPT ![1] = update_prepare(files, reqs[1])]
    /\ UNCHANGED <<storeVars, slugVars, awVars, searchVars>>

OrdMove ==
    /\ reqs[1].pc = "move"
    /\ \E out \in {update_move(uploads, reqs[1])} :
        /\ uploads' = out.uploads
        /\ reqs' = [reqs EXCEPT ![1] = out.req]
    /\ UNCHANGED <<files, last, slugVars, awVars, searchVars>>

OrdSave ==
    /\ reqs[1].pc = "save"
    /\ \E out \in {update_save(uploads, reqs[1])} :
        /\ uploads' = out.uploads
        /\ reqs' = [reqs EXCEPT ![1] = out.req]
    /\ UNCHANGED <<files, last, slugVars, awVars, searchVars>>

OrdWrite ==
    /\ reqs[1].pc = "write"
    /\ \E out \in {update_write(files, reqs[1])} :
        /\ files' = out.files
        /\ reqs' = [reqs EXCEPT ![1] = out.req]
    /\ UNCHANGED <<uploads, last, slugVars, awVars, searchVars>>

NextOrd == OrdPrepare \/ OrdMove \/ OrdSave \/ OrdWrite

SpecOrd == InitOrd /\ [][NextOrd]_vars

\* the handler followed step by step ends where the handler as a whole does
OrdAgrees ==
    reqs[1].pc = "done" =>
        LET whole == IF reqs[1].handler = "api"
                     THEN api_update_recipe(last.files, last.uploads,
                                            reqs[1].slug, reqs[1].form)
                     ELSE recipe_edit_action(last.files, last.uploads,
                                             reqs[1].slug, reqs[1].form)
        IN /\ whole.files = files
           /\ whole.uploads = uploads
           /\ whole.status = reqs[1].status
           /\ whole.status = "ok" =>
                whole.slug = reqs[1].new_slug /\ whole.written = reqs[1].updated

\* the request changes the slug and has reached position pc
Renaming(at) ==
    /\ reqs[1].pc = at
    /\ reqs[1].new_slug # reqs[1].slug

----------------------------------------------------------------------------
(* safe_join as a function of its arguments. A path is the sequence of its *)
(* segments below the root; the directories hold no symbolic link.         *)

RECURSIVE ResolveFrom(_, _)
\* Path.resolve() on an absolute path: "." is dropped, ".." steps up and
\* stays at the root
ResolveFrom(done, parts) ==
    IF parts = <<>> THEN done
    ELSE IF Head(parts) = Dot THEN ResolveFrom(done, Tail(parts))
    ELSE IF Head(parts) = DotDot
    THEN ResolveFrom(IF done = <<>> THEN done ELSE SubSeq(done, 1, Len(done) - 1),
                     Tail(parts))
    ELSE ResolveFrom(Append(done, Head(parts)), Tail(parts))

Resolve(parts) == ResolveFrom(<<>>, parts)

\* str(path) of an absolute path
PathStr(parts) ==
    IF parts = <<>> THEN <<"/">>
    ELSE Join([i \in 1..Len(parts) |-> <<"/">> \o parts[i]])

\* base / Path(*paths): an absolute argument replaces base
JoinPath(base, arg) == IF arg.absolute THEN arg.parts ELSE base \o arg.parts

\* safe_join(base, *paths): the resolved candidate, or ValueError
safe_join(base, arg) ==
    With(Resolve(JoinPath(base, arg)), LAMBDA candidate :
    With(Resolve(base), LAMBDA base_resolved :
    IF ~IsPrefix(PathStr(base_resolved), PathStr(candidate))
    THEN [ok |-> FALSE]
    ELSE [ok |-> TRUE, path |-> candidate]))

SjNames == {<<"u">>, <<"a", "b">>, <<"a", "b", "c">>, <<"x">>, Dot, DotDot}
SjBases == {<< <<"u">>, <<"a", "b">> >>, << <<"u">>, <<"a", "b", "c">> >>,
            << <<"u">>, Dot, <<"a", "b">> >>}
SjArgs == [absolute : BOOLEAN, parts : SeqsUpTo(SjNames, 3)]

InitSj ==
    /\ ReqIdle
    /\ files = <<>>
    /\ uploads = <<>>
    /\ last \in {[op |-> "args", base |-> b, arg |-> a] : b \in SjBases, a \in SjArgs}
    /\ SlugIdle /\ AwIdle /\ SearchIdle

\* target = safe_join(base, out_name)
SjJoin ==
    /\ last.op = "args"
    /\ last' = [op |-> "safe_join", base |-> last.base, arg |-> last.arg,
                out |-> safe_join(last.base, last.arg)]
    /\ UNCHANGED <<files, uploads, slugVars, awVars, searchVars, reqVars>>

NextSj == SjJoin

SpecSj == InitSj /\ [][NextSj]_vars

\* C31: safe_join returns a path exactly when the resolved candidate is the
\* resolved base or lies below it, segment by segment, and the path it
\* returns is that candidate.
C31_Containment ==
    last.op = "safe_join" =>
        LET candidate == Resolve(JoinPath(last.base, last.arg))
        IN /\ last.out.ok <=> IsPrefix(Resolve(last.base), candidate)
           /\ last.out.ok => last.out.path = candidate

====
